---------------------------- MODULE Spec2Model ----------------------------
(***************************************************************************)
(* A model of the signal-fusion backend (samarthrai666/sambotv2).          *)
(*                                                                         *)
(* Numbers.  The Python code computes in binary floating point.  The model *)
(* computes in decimal fixed point; each quantity's unit is given where it *)
(* is defined (hundredths, thousandths, 1e-4).  Inputs are drawn so that   *)
(* no value sits on a rounding tie, where the float result would depend on *)
(* representation error.                                                   *)
(*                                                                         *)
(* Specifications.                                                         *)
(*   SpecPipeline  build_final_signal from its first line, on the dict     *)
(*                 {'candles': [...]} that analyze_signal passes.          *)
(*   SpecFusion    the decision stage of build_final_signal (lines 62-78): *)
(*                 ML prediction, LLM sanity check, final metadata; called *)
(*                 MaxRuns times on the same data at different times.      *)
(*   SpecChain     an OptionChainAnalyzer object and its analyze_* calls.  *)
(*   SpecTrend     TrendDetector._calculate_consolidated_trend on one bar. *)
(*   The others    one function called on its own arguments (args, ret):   *)
(*                 SpecFib get_fib_levels, SpecDuration                    *)
(*                 _calculate_trend_duration, SpecScores                   *)
(*                 calculate_pattern_scores, SpecPatterns                  *)
(*                 detect_chart_patterns, SpecPricing the Black-Scholes    *)
(*                 helpers, SpecFill _fill_missing_values, SpecGrid        *)
(*                 generate_grid_levels, SpecCluster                       *)
(*                 cluster_nearby_levels, SpecMomentum analyze_momentum,   *)
(*                 SpecAdx _calculate_adx, SpecProcess the processors'     *)
(*                 process, SpecAnalyze analyze_signal, SpecRisk           *)
(*                 evaluate_risk, SpecDelta _calculate_delta, SpecOpen     *)
(*                 run_market_open_analysis on shuffled lists.             *)
(*   SpecReport    an OptionChainAnalyzer object, its analyze_* calls and  *)
(*                 get_full_analysis.                                      *)
(***************************************************************************)
EXTENDS Integers, Sequences, FiniteSets, TLC

VARIABLES
    \* ---- build_final_signal(data, index, mode) ----
    data,        \* data['candles']: a sequence of <<timestamp, open, high, low, close, volume>>
    index,       \* "NIFTY" | "BANKNIFTY"
    mode,        \* "scalp" | "swing" | "longterm"
    pc,          \* the line of build_final_signal about to run, or "returned"/"raised"/"idle"
    signal,      \* the local dict `signal`: a function from the keys set so far
    exc,         \* the exception that left build_final_signal, or "none"
    clock,       \* wall clock, in ticks of 0.2 s (time.time() = clock / 5)
    model,       \* what the trained classifier answers on this data: [prediction, proba]
    results,     \* the outcome of each finished call, in call order
    \* ---- OptionChainAnalyzer ----
    option_chain_data,  \* the rows handed to __init__, in the caller's order
    other_order,        \* the same rows in another order (a second caller)
    spot_price,
    self,               \* the analyzer object: its fields
    \* ---- TrendDetector ----
    df,                 \* one bar's five per-method trend columns
    consolidated_trend, \* the bar's consolidated trend, or "unset"
    \* ---- one analysis function called on its own ----
    args,               \* the arguments of the call
    ret                 \* the value returned, or None before the call returns

fusionVars == <<data, index, mode, pc, signal, exc, clock, model, results>>
chainVars  == <<option_chain_data, other_order, spot_price, self>>
trendVars  == <<df, consolidated_trend>>
callVars   == <<args, ret>>
vars       == <<fusionVars, chainVars, trendVars, callVars>>

\* Python's None where an object may stand, and the empty dict {}
None == [none |-> TRUE]
EmptyDict == [k \in {} |-> 0]

-----------------------------------------------------------------------------
(* Bounds of the model *)

MaxCandles == 4        \* longest candle list given to the whole pipeline
MaxFusionCandles == 6  \* longest candle list given to the decision stage
MaxTick == 30          \* latest wall-clock tick
MaxRuns == 2           \* calls of the decision stage on the same data

-----------------------------------------------------------------------------
(* Python helpers *)

Max(a, b) == IF a >= b THEN a ELSE b
Min(a, b) == IF a <= b THEN a ELSE b
Abs(a) == IF a >= 0 THEN a ELSE -a

\* round(x, n) for x >= 0 held in units ten times finer than the result:
\* nearest, ties to even (Python 3 round on the decimal value).
RoundDiv10(x) ==
    LET q == x \div 10
        r == x % 10
    IN  IF r < 5 THEN q
        ELSE IF r > 5 THEN q + 1
        ELSE IF q % 2 = 0 THEN q ELSE q + 1

\* dict.get(key, default)
Get(d, key, default) == IF key \in DOMAIN d THEN d[key] ELSE default

\* `word in s` for the signal strings the system uses
Contains(s, word) ==
    CASE s = "BUY CALL"  -> word \in {"BUY", "CALL"}
      [] s = "SELL CALL" -> word \in {"SELL", "CALL"}
      [] s = "BUY PUT"   -> word \in {"BUY", "PUT"}
      [] OTHER           -> FALSE


-----------------------------------------------------------------------------
(* ml/predict_ml_signal.py *)

\* The class the classifier predicts (1, -1, anything else) and the largest
\* class probability it reports, in units of 1e-4.
Predictions == {1, -1, 0}
Probas == {3334, 5002, 8518, 10000}

\* predict_signal_ml(data): None below five candles, else the signal of the
\* predicted class and round(confidence, 3), in thousandths.
predict_signal_ml(d, m) ==
    IF Len(d) = 0 \/ Len(d) < 5
    THEN None
    ELSE [ml_signal  |-> IF m.prediction = 1 THEN "BUY CALL"
                         ELSE IF m.prediction = -1 THEN "SELL CALL"
                         ELSE "HOLD",
          confidence |-> RoundDiv10(m.proba)]

-----------------------------------------------------------------------------
(* modules/openai_checker.py *)

IsUpSignal(s)   == Contains(s, "UP") \/ Contains(s, "CALL") \/ Contains(s, "BUY")
IsDownSignal(s) == Contains(s, "DOWN") \/ Contains(s, "PUT") \/ Contains(s, "SELL")

\* (time.time() % 10) / 100, in thousandths: the clock ticks every 0.2 s, so
\* fifty ticks make the ten seconds and each tick adds 0.002.
Jitter(t) == (t % 50) * 2

\* generate_mock_response(signal) at wall-clock tick t.  Confidences are in
\* thousandths until the returned value, round(confidence, 2), in hundredths.
\* Raises AttributeError when signal["ml_prediction"] is None (None.get).
generate_mock_response(sig, t) ==
    IF Get(sig, "ml_prediction", EmptyDict) = None
    THEN [raised |-> "AttributeError"]
    ELSE
    LET signal_type == Get(sig, "signal", "HOLD")
        trend       == Get(Get(sig, "primary_trend", EmptyDict), "trend", "neutral")
        indicators  == Get(sig, "indicators", EmptyDict)
        rsi         == Get(indicators, "rsi", 50)
        macd        == Get(indicators, "macd", 0)
        trend_aligned ==
            \/ IsUpSignal(signal_type) /\ trend \in {"uptrend", "strong_uptrend", "weak_uptrend", "bullish"}
            \/ IsDownSignal(signal_type) /\ trend \in {"downtrend", "strong_downtrend", "weak_downtrend", "bearish"}
        confirmations ==
            \/ IsUpSignal(signal_type) /\ rsi > 50 /\ macd > 0
            \/ IsDownSignal(signal_type) /\ rsi < 50 /\ macd < 0
        raw == 600 + (IF trend_aligned THEN 150 ELSE 0)
                   + (IF confirmations THEN 150 ELSE 0)
                   + (Jitter(t) - 50)
        confidence == Max(400, Min(980, raw))
    IN  [raised     |-> "none",
         decision   |-> IF confidence > 750 THEN "AGREE"
                        ELSE IF confidence > 600 THEN "AGREE"
                        ELSE "DISAGREE",
         confidence |-> RoundDiv10(confidence),
         warning    |-> IF confidence > 700 THEN "None"
                        ELSE "Consider waiting for stronger confirmation"]

\* validate_with_openai(signal): the mock response on either branch; any
\* exception becomes the fallback AGREE with confidence 0.7.
validate_with_openai(sig, t) ==
    LET r == generate_mock_response(sig, t)
    IN  IF r.raised = "none"
        THEN [decision |-> r.decision, confidence |-> r.confidence, warning |-> r.warning]
        ELSE [decision |-> "AGREE", confidence |-> 70, warning |-> r.raised]

-----------------------------------------------------------------------------
(* modules/build_final_signal.py, lines 62-78: the decision stage *)

AgreeThreshold == 75   \* gpt_opinion["confidence"] >= 0.75, in hundredths
MlWeight == 6          \* ml_signal["confidence"] * 0.6, in tenths
LlmWeight == 4         \* gpt_opinion["confidence"] * 0.4, in tenths

\* Mutant of FinalDecision: the threshold compared against is 0.6, not 0.75.
FinalDecisionLowThreshold(ml_signal, gpt_opinion) ==
    IF gpt_opinion.decision = "AGREE" /\ gpt_opinion.confidence >= 60
    THEN (IF ml_signal = None THEN "TypeError" ELSE ml_signal.ml_signal)
    ELSE "SKIP"

\* Lines 71-73.  Subscripting None raises TypeError.
FinalDecision(ml_signal, gpt_opinion) ==
    IF gpt_opinion.decision = "AGREE" /\ gpt_opinion.confidence >= AgreeThreshold
    THEN (IF ml_signal = None THEN "TypeError" ELSE ml_signal.ml_signal)
    ELSE "SKIP"

\* Mutant of ConfidenceScore: the two weights exchanged.
ConfidenceScoreSwapped(ml_signal, gpt_opinion) ==
    RoundDiv10(ml_signal.confidence * LlmWeight + gpt_opinion.confidence * 10 * MlWeight)

\* Lines 74-76: round(ml*0.6 + gpt*0.4, 3) in thousandths; ml confidence is
\* in thousandths, the LLM's in hundredths.  ml_signal is not None here:
\* subscripting None raises TypeError before anything is computed.
ConfidenceScore(ml_signal, gpt_opinion) ==
    RoundDiv10(ml_signal.confidence * MlWeight + gpt_opinion.confidence * 10 * LlmWeight)

\* The dict `signal` when line 62 is reached: the thirteen analyses stored.
\* generate_mock_response reads only primary_trend and indicators of them;
\* get_trend_summary's dict has no "trend" key and calculate_all's frame no
\* "rsi" column.
StageKeys == {"pre_market", "market_open", "zones", "fib", "patterns", "momentum",
              "option_chain", "fii_dii", "sectors", "risk", "psychology"}
StageSignal ==
    [k \in StageKeys |-> "analysis"]
       @@ ("primary_trend" :> [trend_momentum |-> "stable"])
       @@ ("indicators" :> [macd_signal |-> "series"])

\* One standard bar; the decision stage looks only at how many there are.
StageBar(i) == <<300 * i, 100, 105, 99, 104, 1000>>
StageData(n) == [i \in 1..n |-> StageBar(i)]

\* Line 63-64
PredictML ==
    /\ pc = "line63"
    /\ signal' = ("ml_prediction" :> predict_signal_ml(data, model)) @@ signal
    /\ pc' = "line67"
    /\ UNCHANGED <<data, index, mode, exc, clock, model, results>>
    /\ UNCHANGED <<chainVars, trendVars, callVars>>

\* Lines 67-68; the wall clock has moved on to some tick t.
ValidateWithOpenAI ==
    /\ pc = "line67"
    /\ \E t \in clock..MaxTick :
         /\ clock' = t
         /\ signal' = ("ai_opinion" :> validate_with_openai(signal, t)) @@ signal
    /\ pc' = "line71"
    /\ UNCHANGED <<data, index, mode, exc, model, results>>
    /\ UNCHANGED <<chainVars, trendVars, callVars>>

\* Lines 71-78: final_decision, confidence_score, return; a TypeError from
\* either expression leaves the function.
FinalMetadata ==
    /\ pc = "line71"
    /\ LET ml_signal   == signal["ml_prediction"]
           gpt_opinion == signal["ai_opinion"]
           fd == FinalDecision(ml_signal, gpt_opinion)
           cs == ConfidenceScore(ml_signal, gpt_opinion)
       IN  IF fd = "TypeError" \/ ml_signal = None
           THEN /\ exc' = "TypeError"
                /\ pc' = "raised"
                /\ signal' = IF fd = "TypeError" THEN signal
                             ELSE ("final_decision" :> fd) @@ signal
                /\ results' = Append(results, [raised |-> "TypeError"])
           ELSE /\ exc' = "none"
                /\ pc' = "returned"
                /\ signal' = ("final_decision" :> fd) @@ ("confidence_score" :> cs) @@ signal
                /\ results' = Append(results, [raised |-> "none", signal |-> signal'])
    /\ UNCHANGED <<data, index, mode, clock, model>>
    /\ UNCHANGED <<chainVars, trendVars, callVars>>

\* The caller asks again, for the same data, index and mode.
CallAgain ==
    /\ pc \in {"returned", "raised"}
    /\ Len(results) < MaxRuns
    /\ pc' = "line63"
    /\ signal' = StageSignal
    /\ exc' = "none"
    /\ UNCHANGED <<data, index, mode, clock, model, results>>
    /\ UNCHANGED <<chainVars, trendVars, callVars>>

Indexes == {"NIFTY", "BANKNIFTY"}
Modes == {"scalp", "swing", "longterm"}

ChainIdle == /\ option_chain_data = <<>>
             /\ other_order = <<>>
             /\ spot_price = 0
             /\ self = None
TrendIdle == /\ df = None
             /\ consolidated_trend = "unset"
CallIdle == /\ args = None
            /\ ret = None
FusionIdle == /\ data = <<>>
              /\ index = "NIFTY"
              /\ mode = "scalp"
              /\ pc = "idle"
              /\ signal = EmptyDict
              /\ exc = "none"
              /\ clock = 0
              /\ model = None
              /\ results = <<>>

InitFusion ==
    /\ \E n \in 0..MaxFusionCandles : data = StageData(n)
    /\ index \in Indexes
    /\ mode = "scalp"
    /\ pc = "line63"
    /\ signal = StageSignal
    /\ exc = "none"
    /\ clock = 0
    /\ model \in [prediction : Predictions, proba : Probas]
    /\ results = <<>>
    /\ ChainIdle
    /\ TrendIdle
    /\ CallIdle

NextFusion == PredictML \/ ValidateWithOpenAI \/ FinalMetadata \/ CallAgain

SpecFusion == InitFusion /\ [][NextFusion]_vars


-----------------------------------------------------------------------------
(* modules/market_open.py *)

\* sorted(candles, key=lambda x: x[0], reverse=True): stable, so candles of
\* equal timestamp keep their order.  A candle c is c[1] timestamp, c[2]
\* open, c[3] high, c[4] low, c[5] close, c[6] volume (Python's c[0]..c[5]).
RECURSIVE SortedByTime(_, _)
SortedByTime(cs, reverse) ==
    IF Len(cs) = 0 THEN <<>>
    ELSE LET rest == SortedByTime(SubSeq(cs, 1, Len(cs) - 1), reverse)
             c    == cs[Len(cs)]
             \* c goes behind every candle that does not have to follow it
             keep == {i \in 1..Len(rest) :
                        IF reverse THEN rest[i][1] >= c[1] ELSE rest[i][1] <= c[1]}
             k    == IF keep = {} THEN 0 ELSE CHOOSE i \in keep : \A j \in keep : j <= i
         IN  SubSeq(rest, 1, k) \o <<c>> \o SubSeq(rest, k + 1, Len(rest))

\* Mutant of MostRecentDayCandles: a session ends at a gap of more than
\* 72000 s.
MostRecentDayCandlesLongGap(sorted_candles) ==
    LET gaps == {i \in 2..Len(sorted_candles) :
                    sorted_candles[i - 1][1] - sorted_candles[i][1] > 72000}
    IN  IF gaps = {} THEN sorted_candles
        ELSE SubSeq(sorted_candles, 1, (CHOOSE i \in gaps : \A j \in gaps : i <= j) - 1)

\* Lines 15-26: the candles after the first gap of more than 7200 s, going
\* back from the latest one, are dropped.
MostRecentDayCandles(sorted_candles) ==
    LET gaps == {i \in 2..Len(sorted_candles) :
                    sorted_candles[i - 1][1] - sorted_candles[i][1] > 7200}
    IN  IF gaps = {} THEN sorted_candles
        ELSE SubSeq(sorted_candles, 1, (CHOOSE i \in gaps : \A j \in gaps : i <= j) - 1)

SeqMax(f, n) == CHOOSE x \in {f[i] : i \in 1..n} : \A i \in 1..n : f[i] <= x
SeqMin(f, n) == CHOOSE x \in {f[i] : i \in 1..n} : \A i \in 1..n : x <= f[i]
RECURSIVE SeqSum(_, _)
SeqSum(f, n) == IF n = 0 THEN 0 ELSE f[n] + SeqSum(f, n - 1)

\* Mutant of OpeningDirection: "close within 0.25% of the high" widened to 3%.
OpeningDirectionLoose(open_price, high, low, close_price) ==
    IF close_price * 10000 > high * 9700 THEN "strongly_bullish"
    ELSE IF close_price > open_price THEN "bullish"
    ELSE IF close_price * 10000 < low * 10025 THEN "strongly_bearish"
    ELSE IF close_price < open_price THEN "bearish"
    ELSE "neutral"

\* Lines 42-51; high * 0.9975 and low * 1.0025 compared in units of 1e-4.
OpeningDirection(open_price, high, low, close_price) ==
    IF close_price * 10000 > high * 9975 THEN "strongly_bullish"
    ELSE IF close_price > open_price THEN "bullish"
    ELSE IF close_price * 10000 < low * 10025 THEN "strongly_bearish"
    ELSE IF close_price < open_price THEN "bearish"
    ELSE "neutral"

\* run_market_open_analysis(data) for data = {'candles': candles}.  The
\* percentages are in units of 1e-4 percent, cut off below that.  The date
\* and the constant texts of the result are left out.
run_market_open_analysis(candles) ==
    IF Len(candles) = 0 \/ Len(candles) < 3
    THEN [error |-> "Insufficient candle data for analysis"]
    ELSE
    LET sorted_candles == SortedByTime(candles, TRUE)
        most_recent_day_candles == SortedByTime(MostRecentDayCandles(sorted_candles), FALSE)
    IN  IF Len(most_recent_day_candles) < 3
        THEN [error |-> "Not enough candles for the most recent day"]
        ELSE
        LET orc == SubSeq(most_recent_day_candles, 1, 3)
            high == SeqMax([i \in 1..3 |-> orc[i][3]], 3)
            low  == SeqMin([i \in 1..3 |-> orc[i][4]], 3)
            open_price  == orc[1][2]
            close_price == orc[3][5]
            vwap3 == orc[3][3] + orc[3][4] + orc[3][5]     \* three times the vwap
            opening_volume == SeqSum([i \in 1..3 |-> orc[i][6]], 3)
            day_volume == SeqSum([i \in 1..Len(most_recent_day_candles) |->
                                     most_recent_day_candles[i][6]],
                                 Len(most_recent_day_candles))
        IN  [candles_used          |-> 3,
             opening_high          |-> high,
             opening_low           |-> low,
             opening_range_width   |-> high - low,
             volatility_pct        |-> IF low > 0 THEN ((high - low) * 1000000) \div low ELSE 0,
             opening_direction     |-> OpeningDirection(open_price, high, low, close_price),
             open_close_change_pct |-> IF open_price > 0
                                       THEN ((close_price - open_price) * 1000000) \div open_price
                                       ELSE 0,
             high_volume_opening   |-> opening_volume * Len(most_recent_day_candles) > day_volume * 3,
             vwap_relation         |-> IF 3 * close_price > vwap3 THEN "above" ELSE "below",
             vwap_distance_pct     |-> IF vwap3 > 0
                                       THEN (Abs(3 * close_price - vwap3) * 1000000) \div vwap3
                                       ELSE 0]

-----------------------------------------------------------------------------
(* modules/trend_analysis.py: get_trend_summary on build_final_signal's data *)

\* get_trend_summary(df) builds TrendDetector(df), whose __init__ reads
\* data.columns (line 34).  build_final_signal hands it the dict `data`,
\* which has no such attribute: AttributeError, raised outside any try.
get_trend_summary(d) == [raised |-> "AttributeError"]

-----------------------------------------------------------------------------
(* modules/build_final_signal.py from line 20: the calls up to the first    *)
(* one that raises.  Lines 33-60 are not reached on a dict.                 *)

\* The bars candle lists are made of: <<open, high, low, close, volume>>.
Bars == { <<100, 105, 99, 104, 1000>>,
          <<104, 110, 103, 108, 1200>>,
          <<108, 115, 107, 112, 900>>,
          <<112, 113, 100, 101, 3000>> }
\* Seconds from one candle to the next: within a session, or overnight.
Gaps == {300, 9000}

\* Candle lists in ascending time order without duplicate timestamps.
RECURSIVE CandleLists(_)
CandleLists(n) ==
    IF n = 0 THEN {<<>>}
    ELSE LET shorter == CandleLists(n - 1)
         IN  shorter \cup
             { Append(cs, <<IF Len(cs) = 0 THEN 0 ELSE cs[Len(cs)][1] + g>> \o b) :
                 cs \in {x \in shorter : Len(x) = n - 1}, b \in Bars, g \in Gaps }

\* Lines 23-24: the pre-market file is there or it is not.
PreMarket ==
    /\ pc = "line23"
    /\ \E found \in BOOLEAN :
         signal' = ("pre_market" :> IF found THEN [sentiment |-> "from file"]
                                    ELSE [error |-> "Pre-market data missing"]) @@ signal
    /\ pc' = "line27"
    /\ UNCHANGED <<data, index, mode, exc, clock, model, results>>
    /\ UNCHANGED <<chainVars, trendVars, callVars>>

\* Line 27
MarketOpen ==
    /\ pc = "line27"
    /\ signal' = ("market_open" :> run_market_open_analysis(data)) @@ signal
    /\ pc' = "line30"
    /\ UNCHANGED <<data, index, mode, exc, clock, model, results>>
    /\ UNCHANGED <<chainVars, trendVars, callVars>>

\* Line 30: the exception leaves build_final_signal.
DetectTrend ==
    /\ pc = "line30"
    /\ LET r == get_trend_summary(data)
       IN  /\ exc' = r.raised
           /\ results' = Append(results, [raised |-> r.raised])
    /\ pc' = "raised"
    /\ UNCHANGED <<data, index, mode, signal, clock, model>>
    /\ UNCHANGED <<chainVars, trendVars, callVars>>

InitPipeline ==
    /\ data \in CandleLists(MaxCandles)
    /\ index \in Indexes
    /\ mode \in Modes
    /\ pc = "line23"
    /\ signal = EmptyDict
    /\ exc = "none"
    /\ clock = 0
    /\ model = None
    /\ results = <<>>
    /\ ChainIdle
    /\ TrendIdle
    /\ CallIdle

NextPipeline == PreMarket \/ MarketOpen \/ DetectTrend

SpecPipeline == InitPipeline /\ [][NextPipeline]_vars


-----------------------------------------------------------------------------
(* Properties of the decision stage (SpecFusion)                            *)

\* C1: whenever build_final_signal has set final_decision, it is the ML
\* signal if the LLM opinion is AGREE with confidence at least 0.75, and
\* "SKIP" in every other case.
C1_FinalDecisionRule ==
    "final_decision" \in DOMAIN signal =>
        LET ai == signal["ai_opinion"]
        IN  IF ai.decision = "AGREE" /\ ai.confidence >= 75
            THEN signal["final_decision"] = signal["ml_prediction"].ml_signal
            ELSE signal["final_decision"] = "SKIP"

\* C1 case: the call returned, the LLM agreed with less than 0.75 and the
\* ML signal, a trade, was replaced by "SKIP".
C1_Witness ==
    /\ pc = "returned"
    /\ signal["ai_opinion"].decision = "AGREE"
    /\ signal["ai_opinion"].confidence < 75
    /\ signal["ml_prediction"].ml_signal = "BUY CALL"
    /\ signal["final_decision"] = "SKIP"

\* C2: the returned confidence_score is 0.6 * ML confidence + 0.4 * LLM
\* confidence rounded to three decimals (within half a thousandth of the
\* exact sum), and lies in [0, 1] as both confidences do.
C2_ConfidenceScore ==
    pc = "returned" =>
        LET m == signal["ml_prediction"].confidence      \* thousandths
            g == signal["ai_opinion"].confidence         \* hundredths
            score == signal["confidence_score"]          \* thousandths
        IN  /\ m \in 0..1000 /\ g \in 0..100
            /\ Abs(10 * score - (6 * m + 40 * g)) <= 5
            /\ 0 <= score /\ score <= 1000

\* C2 case: a returned score whose exact value has a fourth decimal, from
\* confidences that differ (so the two weights can be told apart).
C2_Witness ==
    /\ pc = "returned"
    /\ signal["ml_prediction"].confidence = 852
    /\ signal["ai_opinion"].confidence = 61
    /\ signal["confidence_score"] = 755

\* C3: two calls of the decision stage on the same data, index, mode and
\* model give the same result, whatever the wall clock reads.
C3_Deterministic ==
    \A i, j \in 1..Len(results) : results[i] = results[j]

\* C5: when predict_signal_ml returns None the call still returns a fused
\* result.
C5_MissingMLDegrades ==
    (pc \in {"returned", "raised"} /\ signal["ml_prediction"] = None) =>
        /\ pc = "returned"
        /\ "final_decision" \in DOMAIN signal
        /\ "confidence_score" \in DOMAIN signal

-----------------------------------------------------------------------------
(* Properties of build_final_signal as a whole (SpecPipeline)               *)

\* C4: on a candle list shorter than every analyzer's minimum, the empty
\* list included, no exception leaves build_final_signal.
C4_NoExceptionOnShortInput ==
    Len(data) < 3 => exc = "none"

\* The three opening bars of the scenario, <<open, high, low, close>>.
ScenarioBars == << <<100, 105, 99, 104>>, <<104, 110, 103, 108>>, <<108, 115, 107, 112>> >>

IsScenario(cs) ==
    /\ Len(cs) = 3
    /\ \A i \in 1..3 : <<cs[i][2], cs[i][3], cs[i][4], cs[i][5]>> = ScenarioBars[i]
    /\ \A i \in 2..3 : cs[i][1] - cs[i - 1][1] <= 7200

\* C9: on the three scenario bars of one session the market-open analysis
\* reports opening high 115, opening low 99 and direction "bullish": the
\* close 112 is above the open 100 but not above 115 * 0.9975 = 114.7125.
C9_ScenarioBullish ==
    (IsScenario(data) /\ "market_open" \in DOMAIN signal) =>
        /\ signal["market_open"].opening_direction = "bullish"
        /\ signal["market_open"].opening_high = 115
        /\ signal["market_open"].opening_low = 99

\* C9 as stated: the same bars give direction "strongly_bullish".
C9_ScenarioStronglyBullish ==
    (IsScenario(data) /\ "market_open" \in DOMAIN signal) =>
        /\ signal["market_open"].opening_direction = "strongly_bullish"
        /\ signal["market_open"].opening_high = 115
        /\ signal["market_open"].opening_low = 99

\* C9 case: the analysis has run on the scenario bars.
C9_Witness ==
    /\ IsScenario(data)
    /\ "market_open" \in DOMAIN signal
    /\ signal["market_open"].candles_used = 3


-----------------------------------------------------------------------------
(* modules/option_chain.py: OptionChainAnalyzer                             *)
(*                                                                          *)
(* A row of the chain is a record: strike and spot in points, dte in days,  *)
(* open interest and volume in contracts, call_iv and put_iv in hundredths  *)
(* (30 is 0.30), gamma in hundredths.  The Greeks are computed row by row   *)
(* from the row's own strike, expiry and IV; gamma is carried as that       *)
(* row's value.  Ratios are held in thousandths, percentages in units of    *)
(* 1e-4 percent and sentiment points in units of 1e-4, cut off below.       *)

MaxRows == 3           \* most rows in an option chain

\* a / b cut off toward zero
Quot(a, b) == IF a >= 0 THEN a \div b ELSE -((-a) \div b)

\* Mutant of SortByStrike: the rows are left in the order they came in.
UnsortedRows(rows) == rows

\* Line 70: sort_values('strike').reset_index(drop=True); rows of equal
\* strike keep their order.
RECURSIVE SortByStrike(_)
SortByStrike(rows) ==
    IF Len(rows) = 0 THEN <<>>
    ELSE LET rest == SortByStrike(SubSeq(rows, 1, Len(rows) - 1))
             r    == rows[Len(rows)]
             keep == {i \in 1..Len(rest) : rest[i].strike <= r.strike}
             k    == IF keep = {} THEN 0 ELSE CHOOSE i \in keep : \A j \in keep : j <= i
         IN  SubSeq(rest, 1, k) \o <<r>> \o SubSeq(rest, k + 1, Len(rest))

\* _prepare_data: sort, then keep the closest expiry if there are several.
\* (The rows come with their IVs, so _fill_missing_values adds nothing.)
_prepare_data(rows) ==
    LET sorted == SortByStrike(rows)
        dtes == {sorted[i].dte : i \in 1..Len(sorted)}
        closest_expiry == CHOOSE d \in dtes : \A e \in dtes : d <= e
    IN  IF Cardinality(dtes) > 1
        THEN SelectSeq(sorted, LAMBDA r : r.dte = closest_expiry)
        ELSE sorted

\* __init__: the prepared data and every analysis result None.
OptionChainAnalyzer(rows, spot) ==
    [data                    |-> _prepare_data(rows),
     spot_price              |-> spot,
     max_pain_point          |-> None,
     iv_skew_analysis        |-> None,
     dealer_gamma_exposure   |-> None,
     support_resistance_levels |-> None,
     put_call_ratio_analysis |-> None,
     market_sentiment_score  |-> None]

\* np.argmin and Series.idxmin on a freshly indexed frame: the first
\* position holding the least value.
ArgMin(f) ==
    CHOOSE i \in 1..Len(f) :
        /\ \A j \in 1..Len(f) : f[i] <= f[j]
        /\ \A j \in 1..(i - 1) : f[j] > f[i]

\* Mutant of PainAtStrike: the put writers' pain is left out.
CallPainAtStrike(rows, test_price) ==
    SeqSum([i \in 1..Len(rows) |-> rows[i].call_oi * Max(0, test_price - rows[i].strike)],
           Len(rows))

\* Lines 367-376: the writers' total pain if the underlying ends at test_price.
PainAtStrike(rows, test_price) ==
    LET call_pain == SeqSum([i \in 1..Len(rows) |->
                               rows[i].call_oi * Max(0, test_price - rows[i].strike)], Len(rows))
        put_pain  == SeqSum([i \in 1..Len(rows) |->
                               rows[i].put_oi * Max(0, rows[i].strike - test_price)], Len(rows))
    IN  call_pain + put_pain

analyze_max_pain(slf) ==
    LET rows == slf.data
        pain_at_strike == [t \in 1..Len(rows) |-> PainAtStrike(rows, rows[t].strike)]
        max_pain == rows[ArgMin(pain_at_strike)].strike
        max_pain_deviation == Quot((max_pain - slf.spot_price) * 1000000, slf.spot_price)
    IN  [price         |-> max_pain,
         deviation_pct |-> max_pain_deviation,
         impact        |-> IF Abs(max_pain_deviation) < 5000 THEN "Neutral"
                           ELSE IF max_pain_deviation > 20000 THEN "Bullish"
                           ELSE IF max_pain_deviation < -20000 THEN "Bearish"
                           ELSE IF max_pain_deviation > 0 THEN "Slightly Bullish"
                           ELSE "Slightly Bearish"]

\* pcr > t / 10 and pcr < t / 10 for pcr = puts / calls, compared exactly.
RatioAbove(puts, calls, t) == puts * 10 > t * calls
RatioBelow(puts, calls, t) == puts * 10 < t * calls

\* Mutant of OiBand: the first two tests in the other order.
OiBandModerateFirst(puts, calls) ==
    IF RatioAbove(puts, calls, 15)
    THEN [oi_sentiment |-> "Bearish", oi_contrarian |-> "Moderate Bullish"]
    ELSE IF RatioAbove(puts, calls, 20)
    THEN [oi_sentiment |-> "Bearish", oi_contrarian |-> "Strong Bullish"]
    ELSE IF RatioAbove(puts, calls, 12)
    THEN [oi_sentiment |-> "Slightly Bearish", oi_contrarian |-> "Slightly Bullish"]
    ELSE IF RatioBelow(puts, calls, 5)
    THEN [oi_sentiment |-> "Bullish", oi_contrarian |-> "Strong Bearish"]
    ELSE IF RatioBelow(puts, calls, 7)
    THEN [oi_sentiment |-> "Bullish", oi_contrarian |-> "Moderate Bearish"]
    ELSE IF RatioBelow(puts, calls, 8)
    THEN [oi_sentiment |-> "Slightly Bullish", oi_contrarian |-> "Slightly Bearish"]
    ELSE [oi_sentiment |-> "Neutral", oi_contrarian |-> "Neutral"]

\* Lines 740-767: the open-interest bands.
OiBand(puts, calls) ==
    IF RatioAbove(puts, calls, 20)
    THEN [oi_sentiment |-> "Bearish", oi_contrarian |-> "Strong Bullish"]
    ELSE IF RatioAbove(puts, calls, 15)
    THEN [oi_sentiment |-> "Bearish", oi_contrarian |-> "Moderate Bullish"]
    ELSE IF RatioAbove(puts, calls, 12)
    THEN [oi_sentiment |-> "Slightly Bearish", oi_contrarian |-> "Slightly Bullish"]
    ELSE IF RatioBelow(puts, calls, 5)
    THEN [oi_sentiment |-> "Bullish", oi_contrarian |-> "Strong Bearish"]
    ELSE IF RatioBelow(puts, calls, 7)
    THEN [oi_sentiment |-> "Bullish", oi_contrarian |-> "Moderate Bearish"]
    ELSE IF RatioBelow(puts, calls, 8)
    THEN [oi_sentiment |-> "Slightly Bullish", oi_contrarian |-> "Slightly Bearish"]
    ELSE [oi_sentiment |-> "Neutral", oi_contrarian |-> "Neutral"]

\* Lines 770-797: the volume bands.
VolumeBand(puts, calls) ==
    IF RatioAbove(puts, calls, 25)
    THEN [volume_sentiment |-> "Bearish", volume_contrarian |-> "Strong Bullish"]
    ELSE IF RatioAbove(puts, calls, 18)
    THEN [volume_sentiment |-> "Bearish", volume_contrarian |-> "Moderate Bullish"]
    ELSE IF RatioAbove(puts, calls, 13)
    THEN [volume_sentiment |-> "Slightly Bearish", volume_contrarian |-> "Slightly Bullish"]
    ELSE IF RatioBelow(puts, calls, 4)
    THEN [volume_sentiment |-> "Bullish", volume_contrarian |-> "Strong Bearish"]
    ELSE IF RatioBelow(puts, calls, 6)
    THEN [volume_sentiment |-> "Bullish", volume_contrarian |-> "Moderate Bearish"]
    ELSE IF RatioBelow(puts, calls, 8)
    THEN [volume_sentiment |-> "Slightly Bullish", volume_contrarian |-> "Slightly Bearish"]
    ELSE [volume_sentiment |-> "Neutral", volume_contrarian |-> "Neutral"]

\* Lines 731-812: the two ratios (thousandths) and their bands.
analyze_put_call_ratio(slf) ==
    LET rows == slf.data
        n == Len(rows)
        put_oi      == SeqSum([i \in 1..n |-> rows[i].put_oi], n)
        call_oi     == SeqSum([i \in 1..n |-> rows[i].call_oi], n)
        put_volume  == SeqSum([i \in 1..n |-> rows[i].put_volume], n)
        call_volume == SeqSum([i \in 1..n |-> rows[i].call_volume], n)
        pcr_oi      == Quot(put_oi * 1000, Max(1, call_oi))
        pcr_volume  == Quot(put_volume * 1000, Max(1, call_volume))
        oi  == OiBand(put_oi, Max(1, call_oi))
        vol == VolumeBand(put_volume, Max(1, call_volume))
    IN  [pcr_oi     |-> pcr_oi,
         pcr_volume |-> pcr_volume,
         oi_sentiment      |-> oi.oi_sentiment,
         oi_contrarian     |-> oi.oi_contrarian,
         volume_sentiment  |-> vol.volume_sentiment,
         volume_contrarian |-> vol.volume_contrarian,
         consolidated_sentiment |->
             IF Abs(pcr_volume - 1000) > Abs(pcr_oi - 1000)
             THEN vol.volume_sentiment ELSE oi.oi_sentiment]

\* Lines 421-443 and 482-490.  The rows are in moneyness order already
\* (moneyness = strike / spot); distances are compared times 100 * spot.
analyze_iv_skew(slf) ==
    LET rows == slf.data
        n == Len(rows)
        atm_idx  == ArgMin([i \in 1..n |-> Abs(rows[i].strike * 100 - 100 * slf.spot_price)])
        put_idx  == ArgMin([i \in 1..n |-> Abs(rows[i].strike * 100 - 95 * slf.spot_price)])
        call_idx == ArgMin([i \in 1..n |-> Abs(rows[i].strike * 100 - 105 * slf.spot_price)])
        otm_put_iv  == rows[put_idx].put_iv
        otm_call_iv == rows[call_idx].call_iv
    IN  [skew_25delta |-> otm_put_iv - otm_call_iv,
         skew_ratio   |-> Quot(otm_put_iv * 1000, otm_call_iv),
         atm_iv       |-> (rows[atm_idx].call_iv + rows[atm_idx].put_iv) * 50]

\* Lines 509-518 and 561-563: gamma * oi * spot^2 * 0.01 summed, calls less
\* puts, then divided by spot * 10000 (in thousandths).
analyze_dealer_gamma(slf) ==
    LET rows == slf.data
        n == Len(rows)
        weighted == SeqSum([i \in 1..n |->
                      rows[i].gamma * (rows[i].call_oi - rows[i].put_oi) * slf.spot_price], n)
    IN  [net_gamma            |-> Quot(weighted, 100) * slf.spot_price,   \* hundredths
         normalized_net_gamma |-> Quot(weighted, 100000)]


\* Lines 896-906: `not self.x` holds for None; an analysis already made
\* is used as it is.
Cached(result, fresh) == IF result = None THEN fresh ELSE result

\* Lines 1013-1034: the seven labels.
SentimentLabel(total_score) ==
    IF total_score > 800000 THEN "Strongly Bullish"
    ELSE IF total_score > 650000 THEN "Bullish"
    ELSE IF total_score > 550000 THEN "Slightly Bullish"
    ELSE IF total_score > 450000 THEN "Neutral"
    ELSE IF total_score > 350000 THEN "Slightly Bearish"
    ELSE IF total_score > 200000 THEN "Bearish"
    ELSE "Strongly Bearish"

\* calculate_market_sentiment: the analyzer after the call.  A min() whose
\* argument grows without bound is taken at its cap from the point where
\* the argument reaches it.
calculate_market_sentiment(slf) ==
    LET pcr   == Cached(slf.put_call_ratio_analysis, analyze_put_call_ratio(slf))
        skew  == Cached(slf.iv_skew_analysis, analyze_iv_skew(slf))
        pain  == Cached(slf.max_pain_point, analyze_max_pain(slf))
        gamma == Cached(slf.dealer_gamma_exposure, analyze_dealer_gamma(slf))
        pcr_oi == pcr.pcr_oi
        pcr_oi_score ==
            IF pcr_oi > 1000
            THEN IF pcr_oi >= 2500 THEN 200000
                 ELSE Min(200000, 100000 + Quot(100000 * (pcr_oi - 1000), 1500))
            ELSE Max(0, 100000 - Quot(100000 * (1000 - pcr_oi), 500))
        pcr_volume == pcr.pcr_volume
        pcr_volume_score ==
            IF pcr_volume > 1000
            THEN IF pcr_volume >= 3000 THEN 150000
                 ELSE Min(150000, 75000 + Quot(75000 * (pcr_volume - 1000), 2000))
            ELSE Max(0, 75000 - Quot(75000 * (1000 - pcr_volume), 600))
        skew_ratio == skew.skew_ratio
        iv_skew_score ==
            IF skew_ratio > 1000
            THEN Max(0, 75000 - Quot(75000 * (skew_ratio - 1000), 300))
            ELSE Min(150000, 75000 + Quot(75000 * (1000 - skew_ratio), 300))
        max_pain_dev == pain.deviation_pct
        max_pain_score == Max(0, Min(200000, 100000 + max_pain_dev * 2))
        norm_gamma == gamma.normalized_net_gamma
        gamma_score ==
            IF norm_gamma > 0
            THEN Max(0, 75000 - Quot(75000 * norm_gamma, 300))
            ELSE Min(150000, 75000 + Quot(75000 * Abs(norm_gamma), 300))
        atm_iv == skew.atm_iv
        iv_level_score ==
            IF atm_iv > 3000
            THEN Max(0, 75000 - Quot(75000 * (atm_iv - 3000), 3000))
            ELSE Min(150000, 75000 + Quot(75000 * (3000 - atm_iv), 2000))
        sentiment_components ==
            << [component |-> "PCR_OI",         score |-> pcr_oi_score,     weight |-> 20],
               [component |-> "PCR_Volume",     score |-> pcr_volume_score, weight |-> 15],
               [component |-> "IV_Skew",        score |-> iv_skew_score,    weight |-> 15],
               [component |-> "Max_Pain",       score |-> max_pain_score,   weight |-> 20],
               [component |-> "Gamma_Exposure", score |-> gamma_score,      weight |-> 15],
               [component |-> "ATM_IV_Level",   score |-> iv_level_score,   weight |-> 15] >>
        \* contribution = score * weight, weight in hundredths
        contributions == SeqSum([i \in 1..6 |-> sentiment_components[i].score
                                                * sentiment_components[i].weight], 6)
        weights == SeqSum([i \in 1..6 |-> sentiment_components[i].weight], 6)
        total_score == Quot(contributions * 100, weights)
    IN  [slf EXCEPT
           !.put_call_ratio_analysis = pcr,
           !.iv_skew_analysis = skew,
           !.max_pain_point = pain,
           !.dealer_gamma_exposure = gamma,
           !.market_sentiment_score =
               [score             |-> total_score,
                sentiment         |-> SentimentLabel(total_score),
                contrarian_signal |-> IF total_score > 850000 THEN "Extreme bullishness"
                                      ELSE IF total_score < 150000 THEN "Extreme bearishness"
                                      ELSE "None",
                components        |-> sentiment_components]]

\* The rows chains are made of.  Strikes are unique within an expiry.
ChainRows ==
    { [strike |-> 94,  dte |-> 7,  call_oi |-> 20000,  put_oi |-> 60000, call_volume |-> 1000,
       put_volume |-> 3000, call_iv |-> 22, put_iv |-> 30, gamma |-> 2],
      [strike |-> 99,  dte |-> 7,  call_oi |-> 60000,  put_oi |-> 60000, call_volume |-> 5000,
       put_volume |-> 5000, call_iv |-> 30, put_iv |-> 30, gamma |-> 6],
      [strike |-> 104, dte |-> 7,  call_oi |-> 60000,  put_oi |-> 20000, call_volume |-> 4000,
       put_volume |-> 1000, call_iv |-> 20, put_iv |-> 18, gamma |-> 5],
      [strike |-> 109, dte |-> 7,  call_oi |-> 0,      put_oi |-> 0,     call_volume |-> 0,
       put_volume |-> 0,    call_iv |-> 45, put_iv |-> 15, gamma |-> 1],
      [strike |-> 99,  dte |-> 30, call_oi |-> 100000, put_oi |-> 0,     call_volume |-> 9000,
       put_volume |-> 0,    call_iv |-> 25, put_iv |-> 25, gamma |-> 3] }
Spots == {100, 102}

\* Chains: the rows of a non-empty set of at most n rows, in any order.
Chains(n) ==
    { c \in UNION { [1..k -> ChainRows] : k \in 1..n } :
        \A i, j \in 1..Len(c) : i # j => c[i] # c[j] }
IsPermutation(a, b) ==
    /\ Len(a) = Len(b)
    /\ {a[i] : i \in 1..Len(a)} = {b[i] : i \in 1..Len(b)}

\* OptionChainAnalyzer(option_chain_data, spot_price)
Construct ==
    /\ self = None
    /\ self' = OptionChainAnalyzer(option_chain_data, spot_price)
    /\ UNCHANGED <<option_chain_data, other_order, spot_price>>
    /\ UNCHANGED <<fusionVars, trendVars, callVars>>

AnalyzeMaxPain ==
    /\ self # None
    /\ self' = [self EXCEPT !.max_pain_point = analyze_max_pain(self)]
    /\ UNCHANGED <<option_chain_data, other_order, spot_price>>
    /\ UNCHANGED <<fusionVars, trendVars, callVars>>

AnalyzePutCallRatio ==
    /\ self # None
    /\ self' = [self EXCEPT !.put_call_ratio_analysis = analyze_put_call_ratio(self)]
    /\ UNCHANGED <<option_chain_data, other_order, spot_price>>
    /\ UNCHANGED <<fusionVars, trendVars, callVars>>

AnalyzeIvSkew ==
    /\ self # None
    /\ self' = [self EXCEPT !.iv_skew_analysis = analyze_iv_skew(self)]
    /\ UNCHANGED <<option_chain_data, other_order, spot_price>>
    /\ UNCHANGED <<fusionVars, trendVars, callVars>>

AnalyzeDealerGamma ==
    /\ self # None
    /\ self' = [self EXCEPT !.dealer_gamma_exposure = analyze_dealer_gamma(self)]
    /\ UNCHANGED <<option_chain_data, other_order, spot_price>>
    /\ UNCHANGED <<fusionVars, trendVars, callVars>>

CalculateMarketSentiment ==
    /\ self # None
    /\ self' = calculate_market_sentiment(self)
    /\ UNCHANGED <<option_chain_data, other_order, spot_price>>
    /\ UNCHANGED <<fusionVars, trendVars, callVars>>

InitChain ==
    /\ option_chain_data \in Chains(MaxRows)
    /\ other_order \in {c \in Chains(MaxRows) : IsPermutation(c, option_chain_data)}
    /\ spot_price \in Spots
    /\ self = None
    /\ FusionIdle
    /\ TrendIdle
    /\ CallIdle

NextChain ==
    \/ Construct
    \/ AnalyzeMaxPain
    \/ AnalyzePutCallRatio
    \/ AnalyzeIvSkew
    \/ AnalyzeDealerGamma
    \/ CalculateMarketSentiment

SpecChain == InitChain /\ [][NextChain]_vars


-----------------------------------------------------------------------------
(* Properties of the option chain analyzer (SpecChain)                      *)

\* The rows of the closest expiry among the rows handed to the analyzer,
\* and the writers' total pain over them at a candidate strike.
NearestExpiry == CHOOSE d \in {option_chain_data[i].dte : i \in 1..Len(option_chain_data)} :
                    \A i \in 1..Len(option_chain_data) : d <= option_chain_data[i].dte
TotalPain(candidate) ==
    SeqSum([i \in 1..Len(option_chain_data) |->
              LET r == option_chain_data[i]
              IN  IF r.dte = NearestExpiry
                  THEN r.call_oi * Max(0, candidate - r.strike)
                       + r.put_oi * Max(0, r.strike - candidate)
                  ELSE 0],
           Len(option_chain_data))
NearestStrikes ==
    {option_chain_data[i].strike :
        i \in {j \in 1..Len(option_chain_data) : option_chain_data[j].dte = NearestExpiry}}

\* C6: the strike analyze_max_pain returns is a strike of the chain, and no
\* strike of the chain has a strictly lower total pain.
C6_MaxPainMinimal ==
    (self # None /\ self.max_pain_point # None) =>
        /\ self.max_pain_point.price \in NearestStrikes
        /\ \A k \in NearestStrikes : TotalPain(self.max_pain_point.price) <= TotalPain(k)

\* C6 case: a chain of several strikes given unsorted, where the returned
\* strike is neither the lowest one nor the first one given and another
\* strike hurts strictly more.
C6_Witness ==
    /\ self # None /\ self.max_pain_point # None
    /\ Cardinality(NearestStrikes) >= 3
    /\ self.max_pain_point.price # option_chain_data[1].strike
    /\ \E k \in NearestStrikes : k < self.max_pain_point.price
    /\ \E k \in NearestStrikes : TotalPain(k) > TotalPain(self.max_pain_point.price)

\* C7: the composite sentiment score lies in [0, 100], and so does each of
\* its six components.
C7_ScoreWithin100 ==
    (self # None /\ self.market_sentiment_score # None) =>
        /\ self.market_sentiment_score.score >= 0
        /\ self.market_sentiment_score.score <= 100 * 10000
        /\ \A i \in 1..6 :
             /\ self.market_sentiment_score.components[i].score >= 0
             /\ self.market_sentiment_score.components[i].score <= 100 * 10000

\* C8: the composite sentiment score of a chain equals the score an
\* analyzer gets from the same rows given in any other order.
C8_RowOrderInvariant ==
    (self # None /\ self.market_sentiment_score # None) =>
        self.market_sentiment_score.score =
            calculate_market_sentiment(OptionChainAnalyzer(other_order, spot_price))
                .market_sentiment_score.score

\* C8 case: a score computed from three rows given out of strike order,
\* compared with a different order of the same rows.
C8_Witness ==
    /\ self # None /\ self.market_sentiment_score # None
    /\ Len(option_chain_data) >= 3
    /\ other_order # option_chain_data
    /\ option_chain_data[1].strike > option_chain_data[2].strike
    /\ self.data # option_chain_data

-----------------------------------------------------------------------------
(* modules/trend_analysis.py: TrendDetector._calculate_consolidated_trend   *)
(* on one row of the frame.  Weights and the weighted sum are in tenths.    *)

TrendTypes == {"strong_uptrend", "uptrend", "weak_uptrend", "neutral",
               "weak_downtrend", "downtrend", "strong_downtrend"}
\* The HH/LL method (lines 254-289) has no weak trends.
HhLlTrendTypes == TrendTypes \ {"weak_uptrend", "weak_downtrend"}

\* Lines 460-468
trend_mapping(t) ==
    CASE t = "strong_uptrend"   -> 3
      [] t = "uptrend"          -> 2
      [] t = "weak_uptrend"     -> 1
      [] t = "neutral"          -> 0
      [] t = "weak_downtrend"   -> -1
      [] t = "downtrend"        -> -2
      [] t = "strong_downtrend" -> -3

\* Lines 451-457 and 471-478
WeightedSum(row) ==
    trend_mapping(row.short_term_trend) * 4
    + trend_mapping(row.medium_term_trend) * 3
    + trend_mapping(row.long_term_trend) * 1
    + trend_mapping(row.hh_ll_trend) * 1
    + trend_mapping(row.linreg_trend) * 1

\* Mutant of TrendBucket: the first two tests exclude their lower ends.
TrendBucketStrict(weighted_sum) ==
    LET t1 == IF weighted_sum > 20 THEN "strong_uptrend" ELSE "nan"
        t2 == IF weighted_sum > 10 /\ weighted_sum < 20 THEN "uptrend" ELSE t1
        t3 == IF weighted_sum > 0 /\ weighted_sum < 10 THEN "weak_uptrend" ELSE t2
        t4 == IF weighted_sum > -10 /\ weighted_sum <= 0 THEN "neutral" ELSE t3
        t5 == IF weighted_sum <= -20 THEN "strong_downtrend" ELSE t4
        t6 == IF weighted_sum <= -10 /\ weighted_sum > -20 THEN "downtrend" ELSE t5
    IN  IF weighted_sum < 0 /\ weighted_sum > -10 THEN "weak_downtrend" ELSE t6

\* Lines 481-487: seven masked assignments in this order, a later one
\* replacing an earlier one; the series starts out without a value.
TrendBucket(weighted_sum) ==
    LET t1 == IF weighted_sum >= 20 THEN "strong_uptrend" ELSE "nan"
        t2 == IF weighted_sum >= 10 /\ weighted_sum < 20 THEN "uptrend" ELSE t1
        t3 == IF weighted_sum > 0 /\ weighted_sum < 10 THEN "weak_uptrend" ELSE t2
        t4 == IF weighted_sum > -10 /\ weighted_sum <= 0 THEN "neutral" ELSE t3
        t5 == IF weighted_sum <= -20 THEN "strong_downtrend" ELSE t4
        t6 == IF weighted_sum <= -10 /\ weighted_sum > -20 THEN "downtrend" ELSE t5
    IN  IF weighted_sum < 0 /\ weighted_sum > -10 THEN "weak_downtrend" ELSE t6

_calculate_consolidated_trend(row) == TrendBucket(WeightedSum(row))

CalculateConsolidatedTrend ==
    /\ df # None
    /\ consolidated_trend = "unset"
    /\ consolidated_trend' = _calculate_consolidated_trend(df)
    /\ UNCHANGED df
    /\ UNCHANGED <<fusionVars, chainVars, callVars>>

InitTrend ==
    /\ df \in [short_term_trend : TrendTypes, medium_term_trend : TrendTypes,
               long_term_trend : TrendTypes, hh_ll_trend : HhLlTrendTypes,
               linreg_trend : TrendTypes]
    /\ consolidated_trend = "unset"
    /\ FusionIdle
    /\ ChainIdle
    /\ CallIdle

NextTrend == CalculateConsolidatedTrend

SpecTrend == InitTrend /\ [][NextTrend]_vars

\* The number a trend label stands for, and the weighted sum of the row's
\* five labels in tenths.
LabelScore(t) ==
    IF t = "strong_uptrend" THEN 3 ELSE IF t = "uptrend" THEN 2
    ELSE IF t = "weak_uptrend" THEN 1 ELSE IF t = "neutral" THEN 0
    ELSE IF t = "weak_downtrend" THEN -1 ELSE IF t = "downtrend" THEN -2 ELSE -3
RowSum ==
    4 * LabelScore(df.short_term_trend) + 3 * LabelScore(df.medium_term_trend)
    + LabelScore(df.long_term_trend) + LabelScore(df.hh_ll_trend)
    + LabelScore(df.linreg_trend)

\* C10: the consolidated trend is the bucket of the weighted sum s:
\* s >= 2 strong_uptrend, 1 <= s < 2 uptrend, 0 < s < 1 weak_uptrend,
\* s = 0 neutral, -1 < s < 0 weak_downtrend, -2 < s <= -1 downtrend,
\* s <= -2 strong_downtrend.
C10_ConsolidatedBuckets ==
    consolidated_trend # "unset" =>
        consolidated_trend =
            (IF RowSum >= 20 THEN "strong_uptrend"
             ELSE IF RowSum >= 10 THEN "uptrend"
             ELSE IF RowSum > 0 THEN "weak_uptrend"
             ELSE IF RowSum = 0 THEN "neutral"
             ELSE IF RowSum > -10 THEN "weak_downtrend"
             ELSE IF RowSum > -20 THEN "downtrend"
             ELSE "strong_downtrend")

\* C10 case: a weighted sum of 2.5 bucketed as strong_uptrend.
C10_Witness ==
    /\ RowSum = 25
    /\ consolidated_trend = "strong_uptrend"


-----------------------------------------------------------------------------
(* Properties of the put/call ratio analysis (SpecChain)                    *)

\* Open interest of the closest expiry among the rows given: puts, calls.
NearestPutOi ==
    SeqSum([i \in 1..Len(option_chain_data) |->
              IF option_chain_data[i].dte = NearestExpiry
              THEN option_chain_data[i].put_oi ELSE 0], Len(option_chain_data))
NearestCallOi ==
    SeqSum([i \in 1..Len(option_chain_data) |->
              IF option_chain_data[i].dte = NearestExpiry
              THEN option_chain_data[i].call_oi ELSE 0], Len(option_chain_data))

\* C11: whenever put open interest is more than 2.0 times call open
\* interest (taken as at least 1), analyze_put_call_ratio reports
\* oi_sentiment "Bearish" and oi_contrarian "Strong Bullish".
C11_HighPcrBearish ==
    (/\ self # None
     /\ self.put_call_ratio_analysis # None
     /\ NearestPutOi > 2 * (IF NearestCallOi >= 1 THEN NearestCallOi ELSE 1)) =>
        /\ self.put_call_ratio_analysis.oi_sentiment = "Bearish"
        /\ self.put_call_ratio_analysis.oi_contrarian = "Strong Bullish"

\* C11 case: an analysed chain whose PCR-OI is 3.0.
C11_Witness ==
    /\ self # None
    /\ self.put_call_ratio_analysis # None
    /\ NearestCallOi > 0
    /\ self.put_call_ratio_analysis.pcr_oi = 3000
    /\ self.put_call_ratio_analysis.oi_contrarian = "Strong Bullish"


-----------------------------------------------------------------------------
(* Candle series for the analysis functions called on their own: a first    *)
(* bar, a run of equal bars, and two closing bars, five minutes apart.      *)

MaxFill == 29          \* longest run of equal bars in a generated series

RECURSIVE Repeat(_, _)
Repeat(x, k) == IF k = 0 THEN <<>> ELSE Append(Repeat(x, k - 1), x)

Stamped(bars) == [i \in 1..Len(bars) |-> <<300 * i>> \o bars[i]]

CandleSeries ==
    { Stamped(<<b1>> \o Repeat(b2, k) \o <<b3, b4>>) :
        b1 \in Bars, b2 \in Bars, b3 \in Bars, b4 \in Bars, k \in {0, 6, 7, MaxFill} }

-----------------------------------------------------------------------------
(* modules/fib_analysis.py: get_fib_levels.  Levels are in thousandths.     *)

\* The ratios of the seven levels, in thousandths, in the dict's order.
FibRatios == <<0, 236, 382, 500, 618, 786, 1000>>

\* Mutant of FibPrice: a downtrend's levels are taken down from the low.
FibPriceBelowLow(trend, recent_high, recent_low, ratio) ==
    LET diff == recent_high - recent_low
    IN  IF trend = "uptrend"
        THEN IF ratio = 0 THEN recent_high * 1000
             ELSE IF ratio = 1000 THEN recent_low * 1000
             ELSE recent_high * 1000 - ratio * diff
        ELSE IF ratio = 0 THEN recent_low * 1000
             ELSE IF ratio = 1000 THEN recent_high * 1000
             ELSE recent_low * 1000 - ratio * diff

\* Lines 58-77: one level.
FibPrice(trend, recent_high, recent_low, ratio) ==
    LET diff == recent_high - recent_low
    IN  IF trend = "uptrend"
        THEN IF ratio = 0 THEN recent_high * 1000
             ELSE IF ratio = 1000 THEN recent_low * 1000
             ELSE recent_high * 1000 - ratio * diff
        ELSE IF ratio = 0 THEN recent_low * 1000
             ELSE IF ratio = 1000 THEN recent_high * 1000
             ELSE recent_low * 1000 + ratio * diff

get_fib_levels(candles, fib_mode) ==
    IF Len(candles) = 0 \/ Len(candles) < 10
    THEN [trend |-> "neutral", swing_high |-> 0, swing_low |-> 0,
          retracement_levels |-> <<>>,
          error |-> "Insufficient data for Fibonacci analysis"]
    ELSE
    LET window == IF fib_mode = "intraday" THEN 30 ELSE 100
        n == Min(window, Len(candles))
        df_window == SubSeq(candles, Len(candles) - n + 1, Len(candles))
        recent_high == SeqMax([i \in 1..n |-> df_window[i][3]], n)
        recent_low  == SeqMin([i \in 1..n |-> df_window[i][4]], n)
        trend == IF recent_high > df_window[1][3] THEN "uptrend" ELSE "downtrend"
    IN  [trend |-> trend,
         swing_high |-> recent_high * 1000,
         swing_low |-> recent_low * 1000,
         retracement_levels |->
             [i \in 1..7 |-> [ratio |-> FibRatios[i],
                              price |-> FibPrice(trend, recent_high, recent_low, FibRatios[i])]],
         error |-> "None"]

GetFibLevels ==
    /\ args # None
    /\ ret = None
    /\ ret' = get_fib_levels(args.data, args.mode)
    /\ UNCHANGED args
    /\ UNCHANGED <<fusionVars, chainVars, trendVars>>

InitFib ==
    /\ args \in [data : CandleSeries, mode : {"intraday", "swing"}]
    /\ ret = None
    /\ FusionIdle
    /\ ChainIdle
    /\ TrendIdle

NextFib == GetFibLevels

SpecFib == InitFib /\ [][NextFib]_vars

\* C12: the retracement levels get_fib_levels returns are monotonic in the
\* ratio (all falling or all rising from 0% to 100%) and each lies between
\* swing_low and swing_high inclusive.
C12_FibLevelsOrdered ==
    ret # None =>
        LET lv == ret.retracement_levels
        IN  /\ \/ \A i, j \in 1..Len(lv) : i < j => lv[i].price >= lv[j].price
               \/ \A i, j \in 1..Len(lv) : i < j => lv[i].price <= lv[j].price
            /\ \A i \in 1..Len(lv) :
                 /\ ret.swing_low <= lv[i].price
                 /\ lv[i].price <= ret.swing_high

\* C12 case: seven levels of a downtrend, rising from the swing low.
C12_Witness ==
    /\ ret # None
    /\ ret.trend = "downtrend"
    /\ Len(ret.retracement_levels) = 7
    /\ ret.retracement_levels[1].price = ret.swing_low
    /\ ret.retracement_levels[2].price > ret.swing_low


-----------------------------------------------------------------------------
(* modules/trend_analysis.py: TrendDetector._calculate_trend_duration on    *)
(* the frame's consolidated_trend column.                                   *)

MaxBars == 6           \* most bars in a consolidated_trend column

\* Mutant of _calculate_trend_duration: each bar is compared with the
\* first bar instead of the bar before it.
TrendDurationFromFirst(column) ==
    LET RECURSIVE Upto(_)
        Upto(i) ==
            IF i = 0 THEN <<>>
            ELSE LET duration == Upto(i - 1)
                 IN  IF i > 1 /\ column[i] = column[1]
                     THEN Append(duration, duration[i - 1] + 1)
                     ELSE Append(duration, 1)
    IN  Upto(Len(column))

\* Lines 534-539: every bar starts at 1; going through the bars in order, a
\* bar whose trend equals the previous bar's gets the previous duration + 1.
_calculate_trend_duration(column) ==
    LET RECURSIVE Upto(_)
        Upto(i) ==
            IF i = 0 THEN <<>>
            ELSE LET duration == Upto(i - 1)
                 IN  IF i > 1 /\ column[i] = column[i - 1]
                     THEN Append(duration, duration[i - 1] + 1)
                     ELSE Append(duration, 1)
    IN  Upto(Len(column))

\* The consolidated trends a column is drawn from.
ColumnTrends == {"uptrend", "neutral", "weak_downtrend"}

CalculateTrendDuration ==
    /\ args # None
    /\ ret = None
    /\ ret' = [trend_duration |-> _calculate_trend_duration(args.consolidated_trend)]
    /\ UNCHANGED args
    /\ UNCHANGED <<fusionVars, chainVars, trendVars>>

InitDuration ==
    /\ args \in [consolidated_trend : UNION {[1..n -> ColumnTrends] : n \in 0..MaxBars}]
    /\ ret = None
    /\ FusionIdle
    /\ ChainIdle
    /\ TrendIdle

NextDuration == CalculateTrendDuration

SpecDuration == InitDuration /\ [][NextDuration]_vars

\* C13: trend_duration[i] is the number of consecutive bars ending at i
\* whose consolidated trend is that of bar i; so it is 1 at the first bar
\* and wherever the trend changes.
C13_DurationCountsRun ==
    ret # None =>
        LET column == args.consolidated_trend
        IN  /\ Len(ret.trend_duration) = Len(column)
            /\ \A i \in 1..Len(column) :
                 LET breaks == {j \in 1..(i - 1) : column[j] # column[i]}
                     last == IF breaks = {} THEN 0
                             ELSE CHOOSE j \in breaks : \A k \in breaks : k <= j
                 IN  ret.trend_duration[i] = i - last

\* C13 case: a trend that lasts, changes, and comes back: durations
\* 1, 2, 1, 1, 2 or longer.
C13_Witness ==
    /\ ret # None
    /\ Len(ret.trend_duration) >= 5
    /\ ret.trend_duration[2] = 2 /\ ret.trend_duration[3] = 1
    /\ ret.trend_duration[4] = 1 /\ ret.trend_duration[5] = 2
    /\ args.consolidated_trend[1] = args.consolidated_trend[4]


-----------------------------------------------------------------------------
(* modules/pattern_detector.py: PatternEngine.calculate_pattern_scores on   *)
(* one row of the frame, given the row's four pattern counts.               *)

MaxPatternCount == 3   \* most patterns of one kind counted on a bar

\* Mutant of PatternBias: a score of exactly 2 or -2 counts as strong.
PatternBiasStrongAtTwo(overall_pattern_score) ==
    LET b1 == IF overall_pattern_score >= 2 THEN "strongly_bullish" ELSE "neutral"
        b2 == IF overall_pattern_score > 0 /\ overall_pattern_score < 2 THEN "bullish" ELSE b1
        b3 == IF overall_pattern_score <= -2 THEN "strongly_bearish" ELSE b2
    IN  IF overall_pattern_score < 0 /\ overall_pattern_score > -2 THEN "bearish" ELSE b3

\* Lines 209-214: 'neutral', then four masked assignments in this order.
PatternBias(overall_pattern_score) ==
    LET b1 == IF overall_pattern_score > 2 THEN "strongly_bullish" ELSE "neutral"
        b2 == IF overall_pattern_score > 0 /\ overall_pattern_score <= 2 THEN "bullish" ELSE b1
        b3 == IF overall_pattern_score < -2 THEN "strongly_bearish" ELSE b2
    IN  IF overall_pattern_score < 0 /\ overall_pattern_score >= -2 THEN "bearish" ELSE b3

\* Lines 195-216
calculate_pattern_scores(row) ==
    LET candlestick_pattern_score ==
            row.bullish_candlestick_count - row.bearish_candlestick_count
        chart_pattern_score == row.bullish_chart_count - row.bearish_chart_count
        overall_pattern_score == candlestick_pattern_score + chart_pattern_score * 2
    IN  [candlestick_pattern_score |-> candlestick_pattern_score,
         chart_pattern_score       |-> chart_pattern_score,
         overall_pattern_score     |-> overall_pattern_score,
         pattern_bias              |-> PatternBias(overall_pattern_score)]

CalculatePatternScores ==
    /\ args # None
    /\ ret = None
    /\ ret' = calculate_pattern_scores(args)
    /\ UNCHANGED args
    /\ UNCHANGED <<fusionVars, chainVars, trendVars>>

InitScores ==
    /\ args \in [bullish_candlestick_count : 0..MaxPatternCount,
                 bearish_candlestick_count : 0..MaxPatternCount,
                 bullish_chart_count : 0..MaxPatternCount,
                 bearish_chart_count : 0..MaxPatternCount]
    /\ ret = None
    /\ FusionIdle
    /\ ChainIdle
    /\ TrendIdle

NextScores == CalculatePatternScores

SpecScores == InitScores /\ [][NextScores]_vars

\* C14: the pattern bias depends on the overall pattern score alone: above
\* 2 strongly_bullish, in (0, 2] bullish, 0 neutral, in [-2, 0) bearish,
\* below -2 strongly_bearish.
C14_BiasFromScore ==
    ret # None =>
        LET score == (args.bullish_candlestick_count - args.bearish_candlestick_count)
                     + 2 * (args.bullish_chart_count - args.bearish_chart_count)
        IN  /\ ret.overall_pattern_score = score
            /\ ret.pattern_bias =
                 (IF score > 2 THEN "strongly_bullish"
                  ELSE IF score > 0 THEN "bullish"
                  ELSE IF score = 0 THEN "neutral"
                  ELSE IF score >= -2 THEN "bearish"
                  ELSE "strongly_bearish")

\* C14 case: a score of exactly 2, from one bullish chart pattern, is
\* bullish and not strongly bullish.
C14_Witness ==
    /\ ret # None
    /\ ret.overall_pattern_score = 2
    /\ ret.chart_pattern_score = 1
    /\ ret.pattern_bias = "bullish"


-----------------------------------------------------------------------------
(* modules/pattern_detector.py: PatternEngine.detect_chart_patterns.        *)
(*                                                                          *)
(* The frame is a sequence of bars [open, high, low, close] with prices in  *)
(* hundredths (10000 is 100.00).  Bar j of the model is the frame's row     *)
(* j - 1.  A fitted line is kept as the pair of numerators of its slope and *)
(* intercept over the common denominator of the least-squares solution, so  *)
(* slopes and distances from the line are compared exactly.                 *)

MaxExtra == 1          \* bars a generated frame has beyond the 31 a flag needs
Window == 20           \* detect_chart_patterns(df, window=20)
PoleWindow == 10       \* _detect_flags_and_pennants(df, window, pole_window=10)

\* A frame of n bars: a pole of ten bars rising by `rise`, then closes
\* drifting by `drift` every fourth bar; highs and lows stand off the close
\* by 100, both closing in by `conv` a bar; every `period` bars the high
\* stands `zig` higher, and half a period later the low `zig` lower.
ShapedFrame(n, rise, zig, period, drift, conv) ==
    [j \in 1..n |->
        LET k == j - (n - 20)          \* position in the last 21 bars, from 0
            c == IF k <= -10 THEN 10000
                 ELSE IF k <= 0 THEN 10000 + (rise * (k + 10)) \div 10
                 ELSE 10000 + rise + drift * (k \div 4)
            squeeze == IF k > 0 THEN conv * k ELSE 0
        IN  [open  |-> c,
             high  |-> c + 100 + (IF j % period = 0 THEN zig ELSE 0)
                         + (conv * 20 - squeeze),
             low   |-> c - 100 - (IF j % period = period \div 2 THEN zig ELSE 0)
                         - (conv * 20 - squeeze),
             close |-> c]]

Frames ==
    { ShapedFrame(n, rise, zig, period, drift, conv) :
        n \in {0, 12, 21, 30} \cup (31..(31 + MaxExtra)),
        rise \in {-700, 0, 700}, zig \in {0, 300}, period \in {2, 4},
        drift \in {-1, 0, 1}, conv \in {0, 15} }

\* F applied to the value of e, with e evaluated once.
With(e, F(_)) == CHOOSE r \in {F(v) : v \in {e}} : TRUE

\* np.polyfit(x, y, 1) for x[1..n], y[1..n]: slope = ns / d and
\* intercept = nb / d, d > 0 when the x are distinct.
PolyFit(x, y, n) ==
    With(<<x, y>>, LAMBDA p :
        With(<<SeqSum(p[1], n),
               SeqSum(p[2], n),
               With([i \in 1..n |-> p[1][i] * p[1][i]], LAMBDA f : SeqSum(f, n)),
               With([i \in 1..n |-> p[1][i] * p[2][i]], LAMBDA f : SeqSum(f, n))>>,
             LAMBDA s :                     \* <<sx, sy, sxx, sxy>>
                [ns |-> n * s[4] - s[1] * s[2],
                 nb |-> s[3] * s[2] - s[1] * s[4],
                 d  |-> n * s[3] - s[1] * s[1]]))

\* slope < t / 1000 and slope > t / 1000, slope in price units (t may be
\* negative): hundredths per bar against t / 10.
SlopeBelow(line, t) == line.ns * 10 < t * line.d
SlopeAbove(line, t) == line.ns * 10 > t * line.d

\* max(high) - min(low) over bars a..b of a window
RangeOf(w, a, b) ==
    With([i \in 1..(b - a + 1) |-> w[a + i - 1].high], LAMBDA f : SeqMax(f, b - a + 1))
    - With([i \in 1..(b - a + 1) |-> w[a + i - 1].low], LAMBDA f : SeqMin(f, b - a + 1))

\* window_data = df.iloc[i-window:i+1] for the bar j = i + 1
WindowData(frame, j) == SubSeq(frame, j - Window, j)

\* np.polyfit(range(len(flag_data)), flag_data[column].values, 1)
HighLine(w) ==
    PolyFit([i \in 1..Len(w) |-> i - 1], [i \in 1..Len(w) |-> w[i].high], Len(w))

LowLine(w) ==
    PolyFit([i \in 1..Len(w) |-> i - 1], [i \in 1..Len(w) |-> w[i].low], Len(w))

\* Lines 501-558 for the bar j = i + 1: the four columns' values at that
\* bar.  pole_data is df.iloc[i-30:i-19], flag_data df.iloc[i-20:i+1].
FlagsAt(frame, j) ==
    With(<<frame[j - Window - PoleWindow].close, WindowData(frame, j)>>, LAMBDA fp :
        LET pole_first == fp[1]
            flag_data  == fp[2]
            pole_last  == flag_data[1].close
            m    == Len(flag_data)
            half == m \div 2
        IN  With([flag_line |-> PolyFit([i \in 1..m |-> i - 1],
                                        [i \in 1..m |-> flag_data[i].close], m),
                  high_line |-> HighLine(flag_data),
                  low_line  |-> LowLine(flag_data),
                  first_half_range  |-> RangeOf(flag_data, 1, half),
                  second_half_range |-> RangeOf(flag_data, half + 1, m)],
                 LAMBDA f :
            LET up   == (pole_last - pole_first) * 100 > 5 * pole_first
                down == ~up /\ (pole_last - pole_first) * 100 < -5 * pole_first
                pennant == /\ SlopeBelow(f.high_line, -1) /\ SlopeAbove(f.low_line, 1)
                           /\ f.second_half_range * 10 < f.first_half_range * 8
            IN  [flag_bull    |-> IF /\ up
                                     /\ SlopeAbove(f.flag_line, -5)
                                     /\ SlopeBelow(f.flag_line, 0)
                                     /\ f.second_half_range <= f.first_half_range
                                  THEN 1 ELSE 0,
                 pennant_bull |-> IF up /\ pennant THEN 1 ELSE 0,
                 flag_bear    |-> IF /\ down
                                     /\ SlopeAbove(f.flag_line, 0)
                                     /\ SlopeBelow(f.flag_line, 5)
                                     /\ f.second_half_range <= f.first_half_range
                                  THEN 1 ELSE 0,
                 pennant_bear |-> IF down /\ pennant THEN 1 ELSE 0]))

NoFlags == [flag_bull |-> 0, pennant_bull |-> 0, flag_bear |-> 0, pennant_bear |-> 0]

\* Mutant of _detect_flags_and_pennants: the loop starts at `window`, the
\* pole measured from the first bar when fewer than ten bars precede it.
FlagsWithShortPole(frame) ==
    [j \in 1..Len(frame) |->
        IF j - 1 >= Window
        THEN FlagsAt(Repeat(frame[1], PoleWindow) \o frame, j + PoleWindow)
        ELSE NoFlags]

\* _detect_flags_and_pennants: per bar, the four columns.
_detect_flags_and_pennants(frame) ==
    [j \in 1..Len(frame) |->
        IF j - 1 >= Window + PoleWindow THEN FlagsAt(frame, j) ELSE NoFlags]

\* The members of a set of positions, in ascending order.
Ascending(S) ==
    [i \in 1..Cardinality(S) |->
        CHOOSE x \in S : Cardinality({y \in S : y < x}) = i - 1]

\* scipy.signal.find_peaks(x, prominence=0.5) on x[1..n]: the middle of
\* every plateau that is higher than both its neighbours (the first and
\* last sample are never peaks), kept if it stands at least 0.5 above the
\* higher of the lowest points on its two sides, each side reaching to the
\* first higher sample or to the end of the window.
find_peaks(x, n) ==
    With(x, LAMBDA xs :
        LET plateaus == { pl \in (2..(n - 1)) \X (2..(n - 1)) :
                            /\ pl[1] <= pl[2]
                            /\ \A i \in pl[1]..pl[2] : xs[i] = xs[pl[1]]
                            /\ xs[pl[1] - 1] < xs[pl[1]]
                            /\ xs[pl[2] + 1] < xs[pl[2]] }
            Prominence(p) ==
                LET higherL == {i \in 1..(p - 1) : xs[i] > xs[p]}
                    higherR == {i \in (p + 1)..n : xs[i] > xs[p]}
                    lo == IF higherL = {} THEN 1
                          ELSE (CHOOSE i \in higherL : \A k \in higherL : k <= i) + 1
                    hi == IF higherR = {} THEN n
                          ELSE (CHOOSE i \in higherR : \A k \in higherR : i <= k) - 1
                    left_min  == CHOOSE v \in {xs[i] : i \in lo..p} :
                                     \A i \in lo..p : v <= xs[i]
                    right_min == CHOOSE v \in {xs[i] : i \in p..hi} :
                                     \A i \in p..hi : v <= xs[i]
                IN  xs[p] - Max(left_min, right_min)
        IN  With({ ((pl[1] + pl[2] - 2) \div 2) + 1 : pl \in plateaus }, LAMBDA maxima :
                With({p \in maxima : Prominence(p) >= 50}, LAMBDA kept : Ascending(kept))))

\* Lines 231-238: a window, its highs and lows, and the positions of its
\* peaks and troughs.
Extrema(w) ==
    With(w, LAMBDA wd :
        With(<<[i \in 1..Len(wd) |-> wd[i].high], [i \in 1..Len(wd) |-> wd[i].low]>>,
             LAMBDA hl :
                [w       |-> wd,
                 m       |-> Len(wd),
                 highs   |-> hl[1],
                 lows    |-> hl[2],
                 peaks   |-> find_peaks(hl[1], Len(wd)),
                 troughs |-> find_peaks([i \in 1..Len(wd) |-> -hl[2][i]], Len(wd))]))

\* The two positions of `at` with the largest `val`, earlier first in a
\* tie (np.argsort of the negated heights), in ascending position.
TwoBest(at, val) ==
    With(<<at, val>>, LAMBDA av :
        LET n == Len(av[1])
            Before(a, b) == av[2][a] > av[2][b] \/ (av[2][a] = av[2][b] /\ a < b)
        IN  With(CHOOSE a \in 1..n : \A b \in 1..n : a = b \/ Before(a, b), LAMBDA first :
            With(CHOOSE a \in (1..n) \ {first} :
                     \A b \in (1..n) \ {first} : a = b \/ Before(a, b), LAMBDA second :
                <<Min(av[1][first], av[1][second]), Max(av[1][first], av[1][second])>>)))

\* Lines 229-286 for the bar j.
DoubleAt(frame, j) ==
    With(Extrema(WindowData(frame, j)), LAMBDA e :
        LET top ==
                Len(e.peaks) >= 2 /\
                With(TwoBest(e.peaks, [i \in 1..Len(e.peaks) |-> e.highs[e.peaks[i]]]),
                     LAMBDA pp :
                        /\ Abs(e.highs[pp[1]] - e.highs[pp[2]]) * 100 < e.highs[pp[1]]
                        /\ pp[2] - pp[1] >= 3
                        /\ \E t \in 1..Len(e.troughs) :
                              pp[1] < e.troughs[t] /\ e.troughs[t] < pp[2]
                        /\ e.w[e.m].close < e.w[pp[2]].close)
            bottom ==
                Len(e.troughs) >= 2 /\
                With(TwoBest(e.troughs, [i \in 1..Len(e.troughs) |-> -e.lows[e.troughs[i]]]),
                     LAMBDA tt :
                        /\ Abs(e.lows[tt[1]] - e.lows[tt[2]]) * 100 < e.lows[tt[1]]
                        /\ tt[2] - tt[1] >= 3
                        /\ \E q \in 1..Len(e.peaks) :
                              tt[1] < e.peaks[q] /\ e.peaks[q] < tt[2]
                        /\ e.w[e.m].close > e.w[tt[2]].close)
        IN  [double_top    |-> IF top THEN 1 ELSE 0,
             double_bottom |-> IF bottom THEN 1 ELSE 0])

\* Lines 300-359 for the bar j.
HeadShouldersAt(frame, j) ==
    With(Extrema(WindowData(frame, j)), LAMBDA e :
        LET top ==
                /\ Len(e.peaks) >= 3 /\ Len(e.troughs) >= 2
                /\ \E q \in 1..(Len(e.peaks) - 2) :
                     LET head_value     == e.highs[e.peaks[q + 1]]
                         left_shoulder  == e.highs[e.peaks[q]]
                         right_shoulder == e.highs[e.peaks[q + 2]]
                         between == {t \in 1..Len(e.troughs) :
                                       /\ e.peaks[q] < e.troughs[t]
                                       /\ e.troughs[t] < e.peaks[q + 2]}
                     IN  /\ head_value * 100 > left_shoulder * 102
                         /\ head_value * 100 > right_shoulder * 102
                         /\ Abs(left_shoulder - right_shoulder) * 100 < 5 * left_shoulder
                         /\ Cardinality(between) >= 2
                         /\ \A t \in between : e.w[e.m].close < e.lows[e.troughs[t]]
            inverse ==
                /\ Len(e.troughs) >= 3 /\ Len(e.peaks) >= 2
                /\ \E q \in 1..(Len(e.troughs) - 2) :
                     LET head_value     == e.lows[e.troughs[q + 1]]
                         left_shoulder  == e.lows[e.troughs[q]]
                         right_shoulder == e.lows[e.troughs[q + 2]]
                         between == {t \in 1..Len(e.peaks) :
                                       /\ e.troughs[q] < e.peaks[t]
                                       /\ e.peaks[t] < e.troughs[q + 2]}
                     IN  /\ head_value * 100 < left_shoulder * 98
                         /\ head_value * 100 < right_shoulder * 98
                         /\ Abs(left_shoulder - right_shoulder) * 100 < 5 * left_shoulder
                         /\ Cardinality(between) >= 2
                         /\ \A t \in between : e.w[e.m].close > e.highs[e.peaks[t]]
        IN  [head_shoulders     |-> IF top THEN 1 ELSE 0,
             inv_head_shoulders |-> IF inverse THEN 1 ELSE 0])

\* a / b < c / d for b, d > 0, decided on quotients and remainders so that
\* no product is formed.
RECURSIVE RatLess(_, _, _, _)
RatLess(a, b, c, d) ==
    LET qa == a \div b
        qc == c \div d
        ra == a - qa * b
        rc == c - qc * d
    IN  IF qa # qc THEN qa < qc
        ELSE IF rc = 0 THEN FALSE
        ELSE IF ra = 0 THEN TRUE
        ELSE RatLess(d, rc, b, ra)

\* Lines 585-599 and 629-643: the bars of the window whose value lies
\* within expected / k of the line's expected value there (k = 200 for
\* 0.5%, 100 for 1%).  A negative expected value makes the quotient
\* negative, which is below the tolerance; a zero one makes it inf or nan.
Touches(y, m, line, k) ==
    With(<<y, line>>, LAMBDA yl :
        Cardinality({ i \in 1..m :
            LET expected == yl[2].ns * (i - 1) + yl[2].nb        \* times line.d
            IN  IF expected > 0
                THEN Abs(yl[1][i] * yl[2].d - expected) <= (expected - 1) \div k
                ELSE expected < 0 }))

\* _verify_triangle_touches (k = 200) and _verify_channel_touches (k = 100)
VerifyTouches(w, upper, lower, k) ==
    /\ Touches([i \in 1..Len(w) |-> w[i].high], Len(w), upper, k) >= 2
    /\ Touches([i \in 1..Len(w) |-> w[i].low], Len(w), lower, k) >= 2

\* np.polyfit through the window's peaks (of the highs) and through its
\* troughs (of the lows), lines 383-397 and 443-453; both need two points.
UpperLine(w) ==
    With(Extrema(w), LAMBDA e :
        PolyFit([i \in 1..Len(e.peaks) |-> e.peaks[i] - 1],
                [i \in 1..Len(e.peaks) |-> e.highs[e.peaks[i]]], Len(e.peaks)))

LowerLine(w) ==
    With(Extrema(w), LAMBDA e :
        PolyFit([i \in 1..Len(e.troughs) |-> e.troughs[i] - 1],
                [i \in 1..Len(e.troughs) |-> e.lows[e.troughs[i]]], Len(e.troughs)))

NoLines ==
    [triangle_ascending |-> 0, triangle_descending |-> 0, triangle_symmetrical |-> 0,
     channel_up |-> 0, channel_down |-> 0, wedge_rising |-> 0, wedge_falling |-> 0]

\* Lines 373-419 and 433-485 for the bar j: the window's peaks and troughs,
\* the lines through them, and the seven columns' values.
LinesAt(frame, j) ==
    With(Extrema(WindowData(frame, j)), LAMBDA e :
        IF ~(Len(e.peaks) >= 2 /\ Len(e.troughs) >= 2) THEN NoLines
        ELSE
        With(<<UpperLine(e.w), LowerLine(e.w)>>, LAMBDA ln :
        With(<<VerifyTouches(e.w, ln[1], ln[2], 200),
               VerifyTouches(e.w, ln[1], ln[2], 100)>>, LAMBDA touched :
            LET upper == ln[1]
                lower == ln[2]
                upFlat == SlopeAbove(upper, -1) /\ SlopeBelow(upper, 1)
                loFlat == SlopeAbove(lower, -1) /\ SlopeBelow(lower, 1)
                ascending   == upFlat /\ SlopeAbove(lower, 1)
                descending  == ~ascending /\ loFlat /\ SlopeBelow(upper, -1)
                symmetrical == /\ ~ascending /\ ~(loFlat /\ SlopeBelow(upper, -1))
                               /\ SlopeBelow(upper, -1) /\ SlopeAbove(lower, 1)
                bothUp   == SlopeAbove(upper, 1) /\ SlopeAbove(lower, 1)
                bothDown == SlopeBelow(upper, -1) /\ SlopeBelow(lower, -1)
                \* abs(upper_slope - lower_slope) / abs(upper_slope) < 0.2
                parallel ==
                    IF bothUp
                    THEN /\ RatLess(4 * upper.ns, 5 * upper.d, lower.ns, lower.d)
                         /\ RatLess(lower.ns, lower.d, 6 * upper.ns, 5 * upper.d)
                    ELSE /\ RatLess(6 * upper.ns, 5 * upper.d, lower.ns, lower.d)
                         /\ RatLess(lower.ns, lower.d, 4 * upper.ns, 5 * upper.d)
                shallower == RatLess(upper.ns, upper.d, lower.ns, lower.d)
                triangle == touched[1]
                channel  == touched[2]
                Flag(b) == IF b THEN 1 ELSE 0
            IN  [triangle_ascending   |-> Flag(ascending /\ triangle),
                 triangle_descending  |-> Flag(descending /\ triangle),
                 triangle_symmetrical |-> Flag(symmetrical /\ triangle),
                 channel_up    |-> Flag(bothUp /\ parallel /\ channel),
                 channel_down  |-> Flag(bothDown /\ parallel /\ channel),
                 wedge_rising  |-> Flag(bothUp /\ shallower /\ channel),
                 wedge_falling |-> Flag(bothDown /\ shallower /\ channel)])))

ChartPatterns ==
    {"double_top", "double_bottom", "head_shoulders", "inv_head_shoulders",
     "triangle_ascending", "triangle_descending", "triangle_symmetrical",
     "channel_up", "channel_down", "wedge_rising", "wedge_falling",
     "flag_bull", "flag_bear", "pennant_bull", "pennant_bear"}

bullish_chart_patterns ==
    {"double_bottom", "inv_head_shoulders", "triangle_ascending",
     "channel_up", "wedge_falling", "flag_bull", "pennant_bull"}

bearish_chart_patterns ==
    {"double_top", "head_shoulders", "triangle_descending",
     "channel_down", "wedge_rising", "flag_bear", "pennant_bear"}

FlagColumns == {"flag_bull", "flag_bear", "pennant_bull", "pennant_bear"}

\* The number of columns of S set at a row.
CountSet(row, S) == Cardinality({c \in S : row[c] = 1})

\* detect_chart_patterns(df, window=20): the fifteen columns start at 0,
\* the four loops over range(window, len(df)) and the flag loop set them,
\* and the four summary columns follow.
detect_chart_patterns(frame) ==
    With(_detect_flags_and_pennants(frame), LAMBDA flags :
        [j \in 1..Len(frame) |->
            With(IF j - 1 >= Window
                 THEN <<DoubleAt(frame, j), HeadShouldersAt(frame, j), LinesAt(frame, j)>>
                 ELSE <<[double_top |-> 0, double_bottom |-> 0],
                        [head_shoulders |-> 0, inv_head_shoulders |-> 0],
                        NoLines>>, LAMBDA found :
            With([c \in ChartPatterns |->
                    IF c \in DOMAIN found[1] THEN found[1][c]
                    ELSE IF c \in DOMAIN found[2] THEN found[2][c]
                    ELSE IF c \in DOMAIN found[3] THEN found[3][c]
                    ELSE flags[j][c]], LAMBDA row :
                [columns |-> row,
                 any_bullish_chart   |->
                     IF CountSet(row, bullish_chart_patterns) > 0 THEN 1 ELSE 0,
                 any_bearish_chart   |->
                     IF CountSet(row, bearish_chart_patterns) > 0 THEN 1 ELSE 0,
                 bullish_chart_count |-> CountSet(row, bullish_chart_patterns),
                 bearish_chart_count |-> CountSet(row, bearish_chart_patterns)]))])

\* PatternEngine.detect_chart_patterns(df) called on a frame.
DetectChartPatterns ==
    /\ args # None /\ ret = None
    /\ ret' = [df |-> detect_chart_patterns(args.df)]
    /\ UNCHANGED <<args, fusionVars, chainVars, trendVars>>

InitPatterns ==
    /\ FusionIdle /\ ChainIdle /\ TrendIdle
    /\ args \in [df : Frames]
    /\ ret = None

NextPatterns == DetectChartPatterns

SpecPatterns == InitPatterns /\ [][NextPatterns]_vars


\* The columns of detect_chart_patterns by the trendlines they rest on.
TriangleColumns == {"triangle_ascending", "triangle_descending", "triangle_symmetrical"}

ChannelColumns == {"channel_up", "channel_down", "wedge_rising", "wedge_falling"}

\* C15: a trendline-based chart pattern is flagged at a bar only if each of
\* its two trendlines has at least two touches within the tolerance band
\* inside the detection window: 0.5% of the line through the peaks and the
\* line through the troughs for a triangle, 1% of them for a channel or
\* wedge, and 1% of the line through the highs and the line through the
\* lows of the consolidation for a flag or pennant.
C15_FlaggedOnlyWithTwoTouches ==
    ret # None /\ "df" \in DOMAIN ret /\ "df" \in DOMAIN args =>
        \A j \in 1..Len(ret.df) :
            LET row == ret.df[j].columns
                w   == WindowData(args.df, j)
            IN  /\ (\E c \in TriangleColumns : row[c] = 1)
                      => VerifyTouches(w, UpperLine(w), LowerLine(w), 200)
                /\ (\E c \in ChannelColumns : row[c] = 1)
                      => VerifyTouches(w, UpperLine(w), LowerLine(w), 100)
                /\ (\E c \in FlagColumns : row[c] = 1)
                      => VerifyTouches(w, HighLine(w), LowLine(w), 100)

\* C15, the part the code keeps: triangles, channels and wedges are flagged
\* only with two touches of each line.
C15_PeakLinesTouched ==
    ret # None /\ "df" \in DOMAIN ret /\ "df" \in DOMAIN args =>
        \A j \in 1..Len(ret.df) :
            LET row == ret.df[j].columns
                w   == WindowData(args.df, j)
            IN  /\ (\E c \in TriangleColumns : row[c] = 1)
                      => VerifyTouches(w, UpperLine(w), LowerLine(w), 200)
                /\ (\E c \in ChannelColumns : row[c] = 1)
                      => VerifyTouches(w, UpperLine(w), LowerLine(w), 100)

\* C15: a bar where a pennant is flagged although the line through the
\* highs of its consolidation has fewer than two touches.
C15_Witness ==
    /\ ret # None /\ "df" \in DOMAIN ret /\ "df" \in DOMAIN args
    /\ \E j \in 1..Len(ret.df) :
          /\ ret.df[j].columns["pennant_bull"] = 1
          /\ Touches([i \in 1..(Window + 1) |-> WindowData(args.df, j)[i].high],
                     Window + 1, HighLine(WindowData(args.df, j)), 100) < 2

\* C16: with fewer bars than a pattern's detection window (window + 1 rows
\* for the patterns read off peaks and troughs, window + pole_window + 1
\* for flags and pennants) detect_chart_patterns returns, and that
\* pattern's column is 0 on every bar.
C16_ShortSeriesNothingDetected ==
    ret # None /\ "df" \in DOMAIN ret /\ "df" \in DOMAIN args =>
        /\ Len(ret.df) = Len(args.df)
        /\ Len(args.df) < Window + 1 =>
              \A j \in 1..Len(ret.df) : \A c \in ChartPatterns \ FlagColumns :
                  ret.df[j].columns[c] = 0
        /\ Len(args.df) < Window + PoleWindow + 1 =>
              \A j \in 1..Len(ret.df) : \A c \in FlagColumns :
                  ret.df[j].columns[c] = 0

\* C16: detect_chart_patterns has returned for a non-empty series shorter
\* than the flag window whose pole and consolidation would show a flag.
C16_Witness ==
    /\ ret # None /\ "df" \in DOMAIN ret /\ "df" \in DOMAIN args
    /\ Len(args.df) = Window + PoleWindow
    /\ FlagsWithShortPole(args.df)[Len(args.df)].flag_bull = 1
    /\ ret.df[Len(args.df)].bullish_chart_count = 0


----------------------------------------------------------------------------
\* Option pricing helpers of OptionChainAnalyzer (option_chain.py 252-345).
\* Strikes and spot in points, time_to_expiry in days (the code holds
\* dte / 365), volatility in hundredths.  Outside the degenerate cases the
\* helpers return the Black-Scholes closed form, kept here as the name of
\* the formula and its arguments, not as a number.

\* Mutant of Degenerate: only an expired option is degenerate.
DegenerateExpiredOnly(time_to_expiry, volatility) == time_to_expiry <= 0

\* if time_to_expiry <= 0 or volatility <= 0:
Degenerate(time_to_expiry, volatility) == time_to_expiry <= 0 \/ volatility <= 0

Sentinel(v) == [sentinel |-> TRUE, value |-> v]

ClosedForm(name, a) ==
    [sentinel |-> FALSE, formula |-> name,
     of |-> <<a.spot_price, a.strike, a.time_to_expiry, a.volatility>>]

_calculate_bsm_call(a) ==
    IF Degenerate(a.time_to_expiry, a.volatility)
    THEN Sentinel(Max(0, a.spot_price - a.strike))
    ELSE ClosedForm("S*N(d1) - K*exp(-rT)*N(d2)", a)

_calculate_bsm_put(a) ==
    IF Degenerate(a.time_to_expiry, a.volatility)
    THEN Sentinel(Max(0, a.strike - a.spot_price))
    ELSE ClosedForm("K*exp(-rT)*N(-d2) - S*N(-d1)", a)

_calculate_gamma(a) ==
    IF Degenerate(a.time_to_expiry, a.volatility) THEN Sentinel(0)
    ELSE ClosedForm("pdf(d1) / (S*vol*sqrt(T))", a)

_calculate_theta(a) ==
    IF Degenerate(a.time_to_expiry, a.volatility) THEN Sentinel(0)
    ELSE IF a.option_type = "call"
         THEN ClosedForm("common - r*K*exp(-rT)*N(d2)", a)
         ELSE ClosedForm("common + r*K*exp(-rT)*N(-d2)", a)

_calculate_vega(a) ==
    IF Degenerate(a.time_to_expiry, a.volatility) THEN Sentinel(0)
    ELSE ClosedForm("S*pdf(d1)*sqrt(T) / 100", a)

Helpers == {"_calculate_bsm_call", "_calculate_bsm_put", "_calculate_gamma",
            "_calculate_theta", "_calculate_vega"}

MaxDte == 7            \* longest time to expiry of a priced option, in days
MaxVol == 30           \* highest volatility of a priced option, in hundredths

\* One helper called on its arguments.
CallHelper ==
    /\ args # None /\ ret = None
    /\ ret' = [helper |-> args.helper,
               value  |-> CASE args.helper = "_calculate_bsm_call" -> _calculate_bsm_call(args)
                            [] args.helper = "_calculate_bsm_put"  -> _calculate_bsm_put(args)
                            [] args.helper = "_calculate_gamma"    -> _calculate_gamma(args)
                            [] args.helper = "_calculate_theta"    -> _calculate_theta(args)
                            [] args.helper = "_calculate_vega"     -> _calculate_vega(args)]
    /\ UNCHANGED <<args, fusionVars, chainVars, trendVars>>

InitPricing ==
    /\ FusionIdle /\ ChainIdle /\ TrendIdle
    /\ args \in [helper : Helpers,
                 spot_price : Spots,
                 strike : {94, 100, 109},
                 time_to_expiry : {-1, 0, MaxDte},
                 volatility : {-10, 0, MaxVol},
                 option_type : {"call", "put"}]
    /\ ret = None

NextPricing == CallHelper

SpecPricing == InitPricing /\ [][NextPricing]_vars

\* C17: with time_to_expiry <= 0 or volatility <= 0 each pricing helper
\* returns its sentinel: the call price max(0, spot - strike), the put price
\* max(0, strike - spot), and gamma, theta and vega 0.
C17_DegenerateSentinels ==
    ret # None /\ (args.time_to_expiry <= 0 \/ args.volatility <= 0) =>
        /\ ret.value.sentinel
        /\ ret.helper = "_calculate_bsm_call" =>
               ret.value.value = Max(0, args.spot_price - args.strike)
        /\ ret.helper = "_calculate_bsm_put" =>
               ret.value.value = Max(0, args.strike - args.spot_price)
        /\ ret.helper \in {"_calculate_gamma", "_calculate_theta", "_calculate_vega"} =>
               ret.value.value = 0

\* C17: the call price of an in-the-money strike was asked for with a
\* positive time to expiry and zero volatility, and is the intrinsic value.
C17_Witness ==
    /\ ret # None
    /\ ret.helper = "_calculate_bsm_call"
    /\ args.time_to_expiry > 0 /\ args.volatility = 0
    /\ args.spot_price > args.strike
    /\ ret.value = Sentinel(args.spot_price - args.strike)


----------------------------------------------------------------------------
\* OptionChainAnalyzer._fill_missing_values (option_chain.py 89-117) on a
\* chain without expiry dates (time_to_expiry = 30/365), spot 100 and the
\* default risk_free_rate 0.05.  Prices in hundredths, IVs in hundredths; a
\* cell is Null (NaN) or Num(v).

Null == [isnull |-> TRUE]

Num(v) == [isnull |-> FALSE, v |-> v]

MaxFillRows == 2       \* rows of a chain given to _fill_missing_values

\* The volatilities the IV search is followed on; the code searches the
\* interval [0.001, 5.0] with L-BFGS-B from 0.3.
VolGrid == {10, 20, 30, 40}

\* _calculate_bsm_call and _calculate_bsm_put at spot 100, r = 0.05 and
\* T = 30/365, in hundredths, for the strikes and volatilities used here.
BsmPrice(option_type, strike, vol) ==
    LET call == [k \in {95, 100} |->
                    IF k = 95 THEN [v \in VolGrid |->
                                      CASE v = 10 -> 542 [] v = 20 -> 588
                                        [] v = 30 -> 670 [] v = 40 -> 765]
                    ELSE [v \in VolGrid |->
                            CASE v = 10 -> 136 [] v = 20 -> 249
                              [] v = 30 -> 363 [] v = 40 -> 477]]
        put  == [k \in {95, 100} |->
                    IF k = 95 THEN [v \in VolGrid |->
                                      CASE v = 10 -> 3 [] v = 20 -> 50
                                        [] v = 30 -> 131 [] v = 40 -> 226]
                    ELSE [v \in VolGrid |->
                            CASE v = 10 -> 95 [] v = 20 -> 208
                              [] v = 30 -> 322 [] v = 40 -> 436]]
    IN  IF option_type = "call" THEN call[strike][vol] ELSE put[strike][vol]

\* _calculate_implied_volatility: NaN for a price, strike or time to expiry
\* that is not positive, else the volatility minimising
\* (model_price - option_price) ** 2.
_calculate_implied_volatility(option_price, strike, option_type) ==
    IF option_price <= 0 \/ strike <= 0 THEN Null
    ELSE LET Objective(vol) ==
                 (BsmPrice(option_type, strike, vol) - option_price)
                 * (BsmPrice(option_type, strike, vol) - option_price)
         IN  Num(CHOOSE vol \in VolGrid :
                    \A other \in VolGrid :
                        \/ Objective(vol) < Objective(other)
                        \/ (Objective(vol) = Objective(other) /\ vol <= other))

\* Lines 92-101 and 103-112: the whole column is assigned from
\* the solve as soon as one of its cells is null.
FillColumn(rows, iv, price, option_type) ==
    IF \E i \in 1..Len(rows) : rows[i][iv].isnull
    THEN [i \in 1..Len(rows) |->
            [rows[i] EXCEPT ![iv] =
                IF ~rows[i][price].isnull
                THEN _calculate_implied_volatility(rows[i][price].v, rows[i].strike,
                                                   option_type)
                ELSE Null]]
    ELSE rows

_fill_missing_values(rows) ==
    FillColumn(FillColumn(rows, "call_iv", "call_price", "call"),
               "put_iv", "put_price", "put")

FillRows ==
    [strike     : {95, 100},
     call_price : {Null, Num(0), Num(363)},
     call_iv    : {Null, Num(20), Num(30)},
     put_price  : {Num(208)},
     put_iv     : {Null, Num(20)}]

RECURSIVE RowSeqs(_)
RowSeqs(n) ==
    IF n = 0 THEN {<<>>}
    ELSE LET shorter == RowSeqs(n - 1)
         IN  shorter \cup { Append(q, r) : q \in {x \in shorter : Len(x) = n - 1},
                                           r \in FillRows }

FillMissingValues ==
    /\ args # None /\ ret = None
    /\ ret' = [data |-> _fill_missing_values(args.rows)]
    /\ UNCHANGED <<args, fusionVars, chainVars, trendVars>>

InitFill ==
    /\ FusionIdle /\ ChainIdle /\ TrendIdle
    /\ args \in [rows : RowSeqs(MaxFillRows) \ {<<>>}]
    /\ ret = None

NextFill == FillMissingValues

SpecFill == InitFill /\ [][NextFill]_vars

\* C18: after _fill_missing_values every row that was supplied with an IV
\* value still carries exactly that value (only missing IVs are backfilled).
C18_SuppliedIvKept ==
    ret # None =>
        \A i \in 1..Len(args.rows) :
            /\ ~args.rows[i].call_iv.isnull => ret.data[i].call_iv = args.rows[i].call_iv
            /\ ~args.rows[i].put_iv.isnull => ret.data[i].put_iv = args.rows[i].put_iv

\* C18, what the code keeps: a column with no missing IV is left as it was.
C18_CompleteColumnKept ==
    ret # None =>
        /\ (\A i \in 1..Len(args.rows) : ~args.rows[i].call_iv.isnull) =>
              \A i \in 1..Len(args.rows) : ret.data[i].call_iv = args.rows[i].call_iv
        /\ (\A i \in 1..Len(args.rows) : ~args.rows[i].put_iv.isnull) =>
              \A i \in 1..Len(args.rows) : ret.data[i].put_iv = args.rows[i].put_iv

\* C18: a chain of two rows, the first supplied with call IV 0.20 and the
\* second without one; after the fill the first row's call IV is 0.30.
C18_Witness ==
    /\ ret # None
    /\ Len(args.rows) = 2
    /\ args.rows[1].call_iv = Num(20) /\ args.rows[2].call_iv = Null
    /\ ret.data[1].call_iv = Num(30)


----------------------------------------------------------------------------
\* OptionChainAnalyzer.generate_grid_levels (option_chain.py 1097-1304),
\* called with the four analyses it reads already cached.  Prices in
\* hundredths; a price that the code averages or interpolates is the exact
\* fraction n / d.  Strengths in thousandths.

MaxNumLevels == 5      \* largest num_levels asked for (the default)

Frac(n, d) == [n |-> n, d |-> d]

FracLess(a, b) == a.n * b.d < b.n * a.d

\* sorted(levels, key=lambda x: x['price']); equal prices keep their order.
RECURSIVE SortByPrice(_)
SortByPrice(levels) ==
    IF Len(levels) = 0 THEN <<>>
    ELSE LET rest == SortByPrice(SubSeq(levels, 1, Len(levels) - 1))
             r    == levels[Len(levels)]
             keep == {i \in 1..Len(rest) : ~FracLess(r.price, rest[i].price)}
             k    == IF keep = {} THEN 0 ELSE CHOOSE i \in keep : \A j \in keep : j <= i
         IN  SubSeq(rest, 1, k) \o <<r>> \o SubSeq(rest, k + 1, Len(rest))

\* sorted(levels, key=lambda x: x['strength'], reverse=True); equal
\* strengths keep their order.
RECURSIVE SortByStrength(_)
SortByStrength(levels) ==
    IF Len(levels) = 0 THEN <<>>
    ELSE LET rest == SortByStrength(SubSeq(levels, 1, Len(levels) - 1))
             r    == levels[Len(levels)]
             keep == {i \in 1..Len(rest) : rest[i].strength >= r.strength}
             k    == IF keep = {} THEN 0 ELSE CHOOSE i \in keep : \A j \in keep : j <= i
         IN  SubSeq(rest, 1, k) \o <<r>> \o SubSeq(rest, k + 1, Len(rest))

\* Lines 1124-1165: the support/resistance levels, the one-sigma bounds
\* and the gamma concentration zones, in that order.
KeyLevels(a) ==
    [i \in 1..Len(a.support_resistance_levels) |->
        [price    |-> Frac(a.support_resistance_levels[i].strike, 1),
         type     |-> a.support_resistance_levels[i].type,
         source   |-> "support_resistance",
         strength |-> a.support_resistance_levels[i].strength]]
    \o << [price |-> Frac(a.implied_range.one_sigma_range[1], 1), type |-> "support",
           source |-> "implied_range_lower", strength |-> 700],
          [price |-> Frac(a.implied_range.one_sigma_range[2], 1), type |-> "resistance",
           source |-> "implied_range_upper", strength |-> 700] >>
    \o [i \in 1..Len(a.gamma_concentration) |->
        [price    |-> Frac(a.gamma_concentration[i].strike, 1),
         type     |-> "gamma_zone",
         source   |-> "dealer_gamma",
         strength |-> Min(a.gamma_concentration[i].concentration_pct * 10, 800)]]

\* Lines 1189-1197: the type counted most often among a cluster's types,
\* the one met first among equals; 'current' is not counted.
DominantType(types) ==
    LET counted == SelectSeq(types, LAMBDA t : t # "current")
        Count(t) == Cardinality({i \in 1..Len(counted) : counted[i] = t})
        First(t) == CHOOSE i \in 1..Len(counted) :
                        counted[i] = t /\ \A j \in 1..(i - 1) : counted[j] # t
    IN  IF Len(counted) = 0 THEN "neutral"
        ELSE counted[CHOOSE i \in 1..Len(counted) :
                        /\ First(counted[i]) = i
                        /\ \A j \in 1..Len(counted) :
                              \/ Count(counted[j]) < Count(counted[i])
                              \/ (Count(counted[j]) = Count(counted[i])
                                  /\ First(counted[j]) >= i)]

\* Lines 1170-1212 from position i of the sorted key levels: a cluster is
\* the level at i and the following ones within 0.5% of its price.
RECURSIVE ClusterFrom(_, _)
ClusterFrom(key_levels, i) ==
    IF i > Len(key_levels) THEN <<>>
    ELSE
    LET Near(k) == Abs(key_levels[k].price.n - key_levels[i].price.n) * 200
                     < key_levels[i].price.n
        far == {k \in (i + 1)..Len(key_levels) : ~Near(k)}
        j   == IF far = {} THEN Len(key_levels) + 1
               ELSE CHOOSE k \in far : \A o \in far : k <= o
        cluster == SubSeq(key_levels, i, j - 1)
        n == Len(cluster)
        max_strength == SeqMax([k \in 1..n |-> cluster[k].strength], n)
    IN  << [price    |-> Frac(SeqSum([k \in 1..n |-> cluster[k].price.n], n), n),
            type     |-> DominantType([k \in 1..n |-> cluster[k].type]),
            sources  |-> [k \in 1..n |-> cluster[k].source],
            \* max_strength * (0.8 + 0.2 * min(len(cluster) / 2, 1.0))
            strength |-> IF n = 1 THEN (max_strength * 9) \div 10 ELSE max_strength] >>
        \o ClusterFrom(key_levels, j)

\* abs(level['deviation']) < 0.1, deviation = (price / spot - 1) * 100
AtSpot(level, spot) ==
    Abs(level.price.n - spot * level.price.d) * 1000 < spot * level.price.d

\* Lines 1214-1229: the levels kept out of the clustered ones.
SelectLevels(clustered_levels, spot, num_levels) ==
    IF Len(clustered_levels) > num_levels
    THEN LET current == SelectSeq(clustered_levels, LAMBDA l : AtSpot(l, spot))
             other_levels ==
                 SortByStrength(SelectSeq(clustered_levels, LAMBDA l : ~AtSpot(l, spot)))
             take == IF Len(current) > 0 THEN num_levels - 1 ELSE num_levels
         IN  SubSeq(other_levels, 1, Min(take, Len(other_levels)))
             \o (IF Len(current) > 0 THEN <<current[1]>> ELSE <<>>)
    ELSE clustered_levels

\* Lines 1231-1255: evenly spaced levels between the implied bounds for
\* the levels still missing, each skipped when within 1% of a level
\* selected before.
FillLevels(top_levels, a) ==
    LET missing_levels == a.num_levels - Len(top_levels)
        lower_bound == a.implied_range.lower_bound
        upper_bound == a.implied_range.upper_bound
        NewPrice(i) == Frac(lower_bound * (missing_levels + 1)
                              + i * (upper_bound - lower_bound), missing_levels + 1)
        Clear(i) == \A k \in 1..Len(top_levels) :
                        LET price == top_levels[k].price
                        IN  Abs(NewPrice(i).n * price.d - price.n * NewPrice(i).d) * 100
                              > price.n * NewPrice(i).d
        added == SelectSeq([i \in 1..Max(missing_levels, 0) |-> i], Clear)
    IN  top_levels
        \o [k \in 1..Len(added) |->
              [price |-> NewPrice(added[k]), type |-> "grid_fill",
               sources |-> <<"implied_range">>, strength |-> 500]]

\* Mutant of LevelAction: a level at the spot price is bought.
LevelActionNoNeutral(price, spot) ==
    IF price.n <= spot * price.d THEN "BUY" ELSE "SELL"

\* Lines 1267-1284
LevelAction(price, spot) ==
    IF price.n < spot * price.d THEN "BUY"
    ELSE IF price.n > spot * price.d THEN "SELL"
    ELSE "NEUTRAL"

\* Mutant of StrengthTotal: the strengths of all clustered levels.
StrengthOfClustered(top_levels, clustered_levels) ==
    SeqSum([k \in 1..Len(clustered_levels) |-> clustered_levels[k].strength],
           Len(clustered_levels))

\* sum(l['strength'] for l in top_levels), line 1287
StrengthTotal(top_levels, clustered_levels) ==
    SeqSum([k \in 1..Len(top_levels) |-> top_levels[k].strength], Len(top_levels))

generate_grid_levels(a) ==
    LET clustered_levels == ClusterFrom(SortByPrice(KeyLevels(a)), 1)
        selected   == SelectLevels(clustered_levels, a.spot_price, a.num_levels)
        top_levels == SortByPrice(IF Len(selected) < a.num_levels
                                  THEN FillLevels(selected, a) ELSE selected)
        sentiment_score == a.sentiment_score
        total == StrengthTotal(top_levels, clustered_levels)
    IN  [i \in 1..Len(top_levels) |->
            LET level  == top_levels[i]
                action == LevelAction(level.price, a.spot_price)
                \* conviction * 500000, capped at 1.0
                lean == IF action = "BUY" THEN Max(0, 50 - sentiment_score)
                        ELSE Max(0, sentiment_score - 50)
                conviction == IF action = "NEUTRAL" THEN 250000
                              ELSE level.strength * (500 + 3 * lean)
            IN  [level          |-> i,
                 price          |-> level.price,
                 action         |-> action,
                 type           |-> level.type,
                 sources        |-> level.sources,
                 strength       |-> level.strength,
                 conviction     |-> Frac(Min(conviction, 500000), 500000),
                 allocation_pct |-> Frac(level.strength * 100, total)]]

\* The cached analyses generate_grid_levels reads: the clustered
\* support/resistance levels (the spot price is always one of them), the
\* implied range, the gamma concentration zones and the sentiment score;
\* the spot price is 100.00.
SupportResistance ==
    { SelectSeq(<< [strike |-> 9400,  type |-> "support",       strength |-> 560],
                   [strike |-> 9700,  type |-> "magnet",        strength |-> 680],
                   [strike |-> 10000, type |-> "current_price", strength |-> 800],
                   [strike |-> 10300, type |-> "resistance",    strength |-> 640],
                   [strike |-> 10600, type |-> "resistance",    strength |-> 560] >>,
                LAMBDA l : l.strike \in S \cup {10000}) :
        S \in SUBSET {9400, 9700, 10300, 10600} }

ImpliedRanges ==
    { [one_sigma_range |-> <<9710, 10298>>, lower_bound |-> 9712, upper_bound |-> 10296],
      [one_sigma_range |-> <<9971, 10029>>, lower_bound |-> 9971, upper_bound |-> 10029] }

GammaConcentrations ==
    { <<>>,
      << [strike |-> 9700, concentration_pct |-> 40] >>,
      << [strike |-> 10020, concentration_pct |-> 90],
         [strike |-> 9700, concentration_pct |-> 0] >> }

GenerateGridLevels ==
    /\ args # None /\ ret = None
    /\ ret' = [grid_levels |-> generate_grid_levels(args)]
    /\ UNCHANGED <<args, fusionVars, chainVars, trendVars>>

InitGrid ==
    /\ FusionIdle /\ ChainIdle /\ TrendIdle
    /\ args \in [spot_price : {10000},
                 support_resistance_levels : SupportResistance,
                 implied_range : ImpliedRanges,
                 gamma_concentration : GammaConcentrations,
                 sentiment_score : {20, 50, 810},
                 num_levels : {2, MaxNumLevels}]
    /\ ret = None

NextGrid == GenerateGridLevels

SpecGrid == InitGrid /\ [][NextGrid]_vars

\* C19: every grid level returned has action BUY if its price is below the
\* spot price, SELL if it is above, and NEUTRAL if it equals the spot price.
C19_ActionBySideOfSpot ==
    ret # None =>
        \A i \in 1..Len(ret.grid_levels) :
            LET level == ret.grid_levels[i]
            IN  /\ level.price.n < args.spot_price * level.price.d => level.action = "BUY"
                /\ level.price.n > args.spot_price * level.price.d => level.action = "SELL"
                /\ level.price.n = args.spot_price * level.price.d => level.action = "NEUTRAL"

\* C19: a returned grid with a level below the spot price, one above it and
\* one exactly at it.
C19_Witness ==
    /\ ret # None
    /\ \E i, j, k \in 1..Len(ret.grid_levels) :
          /\ ret.grid_levels[i].action = "BUY"
          /\ ret.grid_levels[j].action = "SELL"
          /\ ret.grid_levels[k].action = "NEUTRAL"
          /\ ret.grid_levels[k].price.n = args.spot_price * ret.grid_levels[k].price.d

----------------------------------------------------------------------------
\* cluster_nearby_levels (support_resistance.py 90-130).  Levels in
\* hundredths; a cluster's average is the exact fraction sum / len.

MaxLevelCount == 3     \* levels handed to cluster_nearby_levels

\* Mutant of CloseToCluster: the level is compared with the cluster's
\* first level instead of its average.
CloseToFirst(cluster, level) ==
    Abs(level - cluster[1]) * 200 <= cluster[1]

\* Lines 117-121: abs(level - avg) / avg * 100 <= threshold_pct (0.5) for
\* avg = sum(cluster) / len(cluster).
CloseToCluster(cluster, level) ==
    With(SeqSum(cluster, Len(cluster)), LAMBDA total :
        Abs(level * Len(cluster) - total) * 200 <= total)

\* Lines 110-124: the clusters after the first k sorted levels.
RECURSIVE ClustersOf(_, _)
ClustersOf(sorted_levels, k) ==
    IF k = 1 THEN << <<sorted_levels[1]>> >>
    ELSE With(ClustersOf(sorted_levels, k - 1), LAMBDA clusters :
            IF CloseToCluster(clusters[Len(clusters)], sorted_levels[k])
            THEN [clusters EXCEPT ![Len(clusters)] = Append(@, sorted_levels[k])]
            ELSE Append(clusters, <<sorted_levels[k]>>))

cluster_nearby_levels(levels) ==
    IF Len(levels) = 0 THEN <<>>
    ELSE With(SortSeq(levels, LAMBDA a, b : a < b), LAMBDA sorted_levels :
         With(ClustersOf(sorted_levels, Len(sorted_levels)), LAMBDA clusters :
            [c \in 1..Len(clusters) |->
                Frac(SeqSum(clusters[c], Len(clusters[c])), Len(clusters[c]))]))

LevelPalette == {10000, 10040, 10060, 10080, 10200, 10260}

ClusterNearbyLevels ==
    /\ args # None /\ ret = None
    /\ ret' = [clustered_levels |-> cluster_nearby_levels(args.levels)]
    /\ UNCHANGED <<args, fusionVars, chainVars, trendVars>>

InitCluster ==
    /\ FusionIdle /\ ChainIdle /\ TrendIdle
    /\ args \in [levels : UNION {[1..n -> LevelPalette] : n \in 0..MaxLevelCount}]
    /\ ret = None

NextCluster == ClusterNearbyLevels

SpecCluster == InitCluster /\ [][NextCluster]_vars

\* C21 (as the code has it): any two levels of the output differ by more
\* than 0.5% of the lower one, and the output is in ascending order.
C21_OutputLevelsApart ==
    ret # None =>
        \A i, j \in 1..Len(ret.clustered_levels) :
            i < j =>
                LET lo == ret.clustered_levels[i]
                    hi == ret.clustered_levels[j]
                IN  (hi.n * lo.d - lo.n * hi.d) * 200 > lo.n * hi.d

\* C21 (as stated): the output levels are apart as above, and any two
\* input levels within 0.5% of one another end in the same cluster, so
\* that they are merged into one output level.
C21_EveryCloseGroupMerged ==
    ret # None /\ Len(args.levels) > 0 =>
        /\ C21_OutputLevelsApart
        /\ LET sorted_levels == SortSeq(args.levels, LAMBDA a, b : a < b)
               clusters == ClustersOf(sorted_levels, Len(sorted_levels))
           IN  \A a, b \in 1..Len(args.levels) :
                  Abs(args.levels[a] - args.levels[b]) * 200
                      <= Min(args.levels[a], args.levels[b])
                  => \E c \in 1..Len(clusters) :
                        /\ \E k \in 1..Len(clusters[c]) : clusters[c][k] = args.levels[a]
                        /\ \E k \in 1..Len(clusters[c]) : clusters[c][k] = args.levels[b]

\* C21: three levels given out of order were clustered into two output
\* levels, the first the average of two inputs.
C21_Witness ==
    /\ ret # None
    /\ Len(args.levels) = 3
    /\ args.levels[1] > args.levels[2]
    /\ Len(ret.clustered_levels) = 2
    /\ ret.clustered_levels[1].d = 2

-----------------------------------------------------------------------------
(* modules/momentum.py: analyze_momentum, the RSI it reports (lines 59-65   *)
(* and 135).  Closes are whole numbers, so the 14-bar sums of gains and of  *)
(* losses are exact in floating point.  The other keys of the result (MACD, *)
(* rates of change, volume surge, the score built from them) are computed   *)
(* from exponential averages and are not part of the model; none of them    *)
(* feeds back into "rsi".                                                   *)

MaxCloses == 16        \* longest candle list given to analyze_momentum
RsiWindow == 14

\* IEEE not-a-number, the result of 0.0 / 0.0.
NaN == [nan |-> TRUE]

\* Line 60 and 61: delta.where(delta > 0, 0) and -delta.where(delta < 0, 0);
\* the first row's delta is NaN, both comparisons are false there.
Delta(closes) == [i \in 1..Len(closes) |-> IF i = 1 THEN 0 ELSE closes[i] - closes[i - 1]]

\* Lines 59-65: the last value of rsi, over the last RsiWindow rows.  The
\* two rolling means share the divisor RsiWindow, so rs is gain sum over
\* loss sum: x / 0.0 is infinite for x > 0 and rsi is 100 - 100 / inf = 100;
\* 0.0 / 0.0 is NaN and stays NaN through line 64.
current_rsi(closes) ==
    With(Delta(closes), LAMBDA delta :
        LET last == {i \in 1..Len(closes) : i > Len(closes) - RsiWindow}
            gains[i \in 0..Len(closes)] ==
                IF i = 0 THEN 0
                ELSE gains[i - 1] + (IF i \in last /\ delta[i] > 0 THEN delta[i] ELSE 0)
            losses[i \in 0..Len(closes)] ==
                IF i = 0 THEN 0
                ELSE losses[i - 1] + (IF i \in last /\ delta[i] < 0 THEN -delta[i] ELSE 0)
            gain == gains[Len(closes)]
            loss == losses[Len(closes)]
        IN  IF loss = 0
            THEN IF gain = 0 THEN NaN ELSE Frac(100, 1)
            ELSE Frac(100 * gain, gain + loss))

\* Lines 18-47 and 133-135, for data = {'candles': candles}.
analyze_momentum(candles) ==
    IF Len(candles) = 0 \/ Len(candles) < 10
    THEN [momentum_signal |-> "neutral",
          error |-> "Insufficient data for momentum analysis"]
    ELSE IF Len(candles) < RsiWindow
    THEN [momentum_signal |-> "neutral",
          error |-> "Insufficient data points for analysis"]
    ELSE [rsi |-> current_rsi([i \in 1..Len(candles) |-> candles[i][5]])]

\* Close series: a run of step1 per bar, then a run of step2 per bar.
CloseRuns(n, turn, step1, step2) ==
    [i \in 1..n |-> 200 + step1 * Min(i - 1, turn) + step2 * Max(0, i - 1 - turn)]

MomentumCandles ==
    { Stamped([i \in 1..n |->
          With(CloseRuns(n, turn, step1, step2)[i], LAMBDA c : <<c, c, c, c, 1000>>)]) :
        n \in {0, 9, 13, 14, MaxCloses}, turn \in {0, 1, 2, 8, 15},
        step1 \in {-5, 0, 5}, step2 \in {-3, 0, 3} }

AnalyzeMomentum ==
    /\ args # None /\ ret = None
    /\ ret' = analyze_momentum(args.candles)
    /\ UNCHANGED <<args, fusionVars, chainVars, trendVars>>

InitMomentum ==
    /\ FusionIdle /\ ChainIdle /\ TrendIdle
    /\ args \in [candles : MomentumCandles]
    /\ ret = None

NextMomentum == AnalyzeMomentum

SpecMomentum == InitMomentum /\ [][NextMomentum]_vars

\* C22: every RSI value the system outputs lies in [0,100], for every close
\* series including constant and strictly monotone ones.
C22_RsiInRange ==
    (ret # None /\ "rsi" \in DOMAIN ret) =>
        /\ ret.rsi # NaN
        /\ 0 <= ret.rsi.n /\ ret.rsi.n <= 100 * ret.rsi.d

\* C22, the part that holds: on a series that moved somewhere in its last
\* 14 bars the RSI is a number in [0,100], 100 when it never fell.
C22_MovingSeriesInRange ==
    (ret # None /\ "rsi" \in DOMAIN ret /\ ret.rsi # NaN) =>
        /\ 0 <= ret.rsi.n /\ ret.rsi.n <= 100 * ret.rsi.d
        /\ \E i \in 2..Len(args.candles) :
             /\ i > Len(args.candles) - RsiWindow
             /\ args.candles[i][5] # args.candles[i - 1][5]

\* C22: a constant series was analysed and an RSI came out.
C22_ConstantSeries ==
    /\ ret # None /\ "rsi" \in DOMAIN ret
    /\ \A i \in 1..Len(args.candles) : args.candles[i][5] = args.candles[1][5]

-----------------------------------------------------------------------------
(* modules/trend_analysis.py: TrendDetector._calculate_adx.  Rows are       *)
(* <<high, low, close>> in whole numbers; dx and adx are in 1e-4.  A        *)
(* missing value (pandas NaN) is Null.                                      *)

MaxAdxRows == 28       \* longest frame given to _calculate_adx
AdxPeriod == 14

\* Lines 119-133: +DM and -DM; the first row's diffs are NaN and every
\* comparison with them is false.
PlusDm(rows) ==
    [i \in 1..Len(rows) |->
        IF i = 1 THEN 0
        ELSE LET high_diff == rows[i][1] - rows[i - 1][1]
                 low_diff == (rows[i][2] - rows[i - 1][2]) * (-1)
             IN  IF high_diff > low_diff /\ high_diff > 0 THEN high_diff ELSE 0]

MinusDm(rows) ==
    [i \in 1..Len(rows) |->
        IF i = 1 THEN 0
        ELSE LET high_diff == rows[i][1] - rows[i - 1][1]
                 low_diff == (rows[i][2] - rows[i - 1][2]) * (-1)
             IN  IF low_diff > high_diff /\ low_diff > 0 THEN low_diff ELSE 0]

\* Lines 136-139: max(axis=1) skips the NaN of the shifted close in row 1.
TrueRange(rows) ==
    [i \in 1..Len(rows) |->
        IF i = 1 THEN Abs(rows[i][1] - rows[i][2])
        ELSE Max(Abs(rows[i][1] - rows[i][2]),
                 Max(Abs(rows[i][1] - rows[i - 1][3]), Abs(rows[i][2] - rows[i - 1][3])))]

\* rolling(window=period).sum() of a column without missing values.
RollingSum(column, period) ==
    LET total[i \in 0..Len(column)] == IF i = 0 THEN 0 ELSE total[i - 1] + column[i]
    IN  [i \in 1..Len(column) |->
            IF i < period THEN Null ELSE Num(total[i] - total[i - period])]

\* Lines 146-150, one row: +di and -di share the divisor smoothed_tr.  With
\* smoothed_tr = 0.0 both are 0/0 or x/0, and dx is NaN; with both sums of
\* directional movement 0.0, dx is 0/0, NaN again.
DxOf(smoothed_tr, smoothed_plus, smoothed_minus) ==
    IF smoothed_tr.isnull THEN Null
    ELSE IF smoothed_tr.v = 0 THEN Null
    ELSE IF smoothed_plus.v + smoothed_minus.v = 0 THEN Null
    ELSE Num((1000000 * Abs(smoothed_plus.v - smoothed_minus.v))
                 \div (smoothed_plus.v + smoothed_minus.v))

\* Line 151: rolling(window=period).mean(); a window holding a NaN has fewer
\* than `period` observations and gives NaN.
RollingMean(dx, period) ==
    LET missing[i \in 0..Len(dx)] ==
            IF i = 0 THEN 0 ELSE missing[i - 1] + (IF dx[i].isnull THEN 1 ELSE 0)
        total[i \in 0..Len(dx)] ==
            IF i = 0 THEN 0 ELSE total[i - 1] + (IF dx[i].isnull THEN 0 ELSE dx[i].v)
    IN  [i \in 1..Len(dx) |->
            IF i < period \/ missing[i] - missing[i - period] > 0 THEN Null
            ELSE Num((total[i] - total[i - period]) \div period)]

\* Lines 111-153.
_calculate_adx(rows, period) ==
    With(RollingSum(TrueRange(rows), period), LAMBDA smoothed_tr :
    With(RollingSum(PlusDm(rows), period), LAMBDA smoothed_plus :
    With(RollingSum(MinusDm(rows), period), LAMBDA smoothed_minus :
    With([i \in 1..Len(rows) |->
              DxOf(smoothed_tr[i], smoothed_plus[i], smoothed_minus[i])], LAMBDA dx :
        RollingMean(dx, period)))))

\* Frames: bars of height `height` closing in their middle, moving step1
\* per bar up to bar `turn` and step2 per bar after it.
AdxFrame(n, turn, step1, step2, height) ==
    [i \in 1..n |->
        With(200 + step1 * Min(i - 1, turn) + step2 * Max(0, i - 1 - turn), LAMBDA low :
            <<low + height, low, low + height \div 2>>)]

AdxFrames ==
    { AdxFrame(n, turn, step1, step2, height) :
        n \in {0, 13, 26, 27, MaxAdxRows}, turn \in {0, 6, 13, 20},
        step1 \in {-2, 0, 2}, step2 \in {-3, 0, 3}, height \in {0, 4} }

CalculateAdx ==
    /\ args # None /\ ret = None
    /\ ret' = [adx |-> _calculate_adx(args.data, AdxPeriod)]
    /\ UNCHANGED <<args, fusionVars, chainVars, trendVars>>

InitAdx ==
    /\ FusionIdle /\ ChainIdle /\ TrendIdle
    /\ args \in [data : AdxFrames]
    /\ ret = None

NextAdx == CalculateAdx

SpecAdx == InitAdx /\ [][NextAdx]_vars

\* C23: every ADX value the system outputs lies in [0,100], also on flat
\* series where the true range or the directional movement is zero.  The
\* first 2 * period - 2 rows have no history and are left out.
C23_AdxInRange ==
    ret # None =>
        \A i \in 1..Len(ret.adx) :
            i >= 2 * AdxPeriod - 1 =>
                /\ ~ret.adx[i].isnull
                /\ 0 <= ret.adx[i].v /\ ret.adx[i].v <= 1000000

\* C23, the part that holds: a value that is there is in [0,100].
C23_PresentValuesInRange ==
    ret # None =>
        \A i \in 1..Len(ret.adx) :
            ~ret.adx[i].isnull => (0 <= ret.adx[i].v /\ ret.adx[i].v <= 1000000)

\* C23: a frame with history whose last bars all moved gave an ADX.
C23_SomeAdx ==
    /\ ret # None /\ Len(ret.adx) >= 2 * AdxPeriod - 1
    /\ ~ret.adx[Len(ret.adx)].isnull
    /\ ret.adx[Len(ret.adx)].v < 1000000

-----------------------------------------------------------------------------
(* processors/nifty_swing.py and processors/banknifty_longterm.py: process, *)
(* with utils/auto_execution_rules.py.  The signal is what analyze_signal   *)
(* returned (None below twenty candles, else a dict with the keys of lines  *)
(* 115-169 or of the fallback of lines 182-194; neither has a key           *)
(* 'signal_type'), ml_signal what predict_signal_ml returned.  Confidence   *)
(* and rrr are in hundredths.                                               *)

\* utils/auto_execution_rules.py lines 1-9.  Line 6 formats
\* signal['signal_type'] and signal['confidence'] before the rule is read.
check_auto_rules(sig) ==
    IF "signal_type" \notin DOMAIN sig \/ "confidence" \notin DOMAIN sig
    THEN [raised |-> "KeyError"]
    ELSE [value |-> Get(sig, "confidence", 0) >= 85 /\ Get(sig, "rrr", 0) >= 120]

\* nifty_swing.py lines 19-23.
InjectMl(sig, ai_enabled, ml_signal) ==
    IF ai_enabled /\ ml_signal # None
    THEN IF sig = None
         THEN [raised |-> "TypeError"]
         ELSE [value |-> [k \in DOMAIN sig \cup {"ml_prediction"} |->
                             IF k = "ml_prediction" THEN ml_signal ELSE sig[k]]]
    ELSE [value |-> sig]

\* nifty_swing.py lines 25-40 and banknifty_longterm.py lines 11-20: orders
\* are the calls of place_order, journal the calls of log_trade.
Dispatch(sig, auto_execute, logging) ==
    IF sig = None
    THEN [executed |-> <<>>, non_executed |-> <<>>, orders |-> <<>>, journal |-> <<>>]
    ELSE With(IF auto_execute THEN check_auto_rules(sig) ELSE [value |-> FALSE],
              LAMBDA rule :
        IF "raised" \in DOMAIN rule
        THEN [raised |-> rule.raised, orders |-> <<>>, journal |-> <<>>]
        ELSE IF rule.value
        THEN [executed |-> <<sig>>, non_executed |-> <<>>, orders |-> <<sig>>,
              journal |-> IF logging THEN <<[signal |-> sig, executed |-> TRUE]>> ELSE <<>>]
        ELSE [executed |-> <<>>, non_executed |-> <<sig>>, orders |-> <<>>,
              journal |-> IF logging THEN <<[signal |-> sig, executed |-> FALSE]>> ELSE <<>>])

process(a) ==
    IF a.processor = "nifty_swing"
    THEN With(InjectMl(a.signal, a.ai_enabled, a.ml_signal), LAMBDA injected :
             IF "raised" \in DOMAIN injected
             THEN [raised |-> injected.raised, orders |-> <<>>, journal |-> <<>>]
             ELSE Dispatch(injected.value, a.auto_execute, a.log_enabled))
    ELSE Dispatch(a.signal, a.auto_execute, FALSE)

\* What analyze_signal hands over for a candle count.
AnalyzedSignals(candle_count) ==
    IF candle_count < 20 THEN {None}
    ELSE [signal : {"HOLD", "BUY CALL", "SELL CALL"}, confidence : {50, 84, 85, 95},
          rrr : {0, 119, 120, 200}, index : {"NIFTY"}]

MlSignals(candle_count) ==
    IF candle_count < 5 THEN {None}
    ELSE {[ml_signal |-> "BUY CALL", confidence |-> 852]}

ProcessCalls ==
    UNION { [processor : {"nifty_swing", "banknifty_longterm"}, auto_execute : BOOLEAN,
             log_enabled : BOOLEAN, ai_enabled : BOOLEAN,
             signal : AnalyzedSignals(n), ml_signal : MlSignals(n)] : n \in {0, 5, 20} }

Process ==
    /\ args # None /\ ret = None
    /\ ret' = process(args)
    /\ UNCHANGED <<args, fusionVars, chainVars, trendVars>>

InitProcess ==
    /\ FusionIdle /\ ChainIdle /\ TrendIdle
    /\ args \in ProcessCalls
    /\ ret = None

NextProcess == Process

SpecProcess == InitProcess /\ [][NextProcess]_vars

\* C24: a non-empty signal is ordered and listed under executed exactly when
\* auto_execute is true, confidence >= 0.85 and rrr >= 1.2; otherwise it is
\* listed under non_executed and no order is placed; it is in exactly one
\* of the two lists.
C24_ExecutedIffRules ==
    (ret # None /\ args.signal # None) =>
        /\ "executed" \in DOMAIN ret
        /\ Len(ret.executed) + Len(ret.non_executed) = 1
        /\ IF args.auto_execute /\ args.signal.confidence >= 85 /\ args.signal.rrr >= 120
           THEN Len(ret.executed) = 1 /\ Len(ret.orders) = 1
           ELSE Len(ret.non_executed) = 1 /\ Len(ret.orders) = 0

\* C24, the part that holds: without auto_execute a non-empty signal is
\* listed under non_executed and nothing is ordered; with auto_execute the
\* call ends in check_auto_rules and returns no lists.
C24_ManualNeverOrders ==
    (ret # None /\ args.signal # None) =>
        IF args.auto_execute
        THEN "raised" \in DOMAIN ret /\ ret.raised = "KeyError" /\ ret.orders = <<>>
        ELSE /\ "executed" \in DOMAIN ret
             /\ ret.executed = <<>> /\ Len(ret.non_executed) = 1 /\ ret.orders = <<>>

\* C24: a signal that meets both thresholds went through a processor with
\* auto_execute on.
C24_QualifiedSignalProcessed ==
    /\ ret # None /\ args.signal # None /\ args.auto_execute
    /\ args.signal.confidence >= 85 /\ args.signal.rrr >= 120

-----------------------------------------------------------------------------
(* modules/option_chain.py: analyze_support_resistance and                  *)
(* get_full_analysis on one analyzer object (SpecReport).  Level strengths  *)
(* are in thousandths, strikes of clustered levels exact fractions.  Of the *)
(* report, the keys timestamp, expiry, implied_range and grid_levels are    *)
(* not modelled: analyze_implied_range reads no cached analysis, and the    *)
(* grid is built from support_resistance_levels (SpecGrid).                 *)

\* Lines 302-312 as run by _calculate_greeks (lines 147-155): the call delta
\* of a row of ChainRows at a spot price of Spots, in units of 1e-4.
CallDelta(row, spot) ==
    IF spot = 100
    THEN CASE row.strike = 94  -> 9811
           [] row.strike = 99  -> IF row.dte = 7 THEN 6125 ELSE 5923
           [] row.strike = 104 -> 857
           [] OTHER            -> 907
    ELSE CASE row.strike = 94  -> 9968
           [] row.strike = 99  -> IF row.dte = 7 THEN 7771 ELSE 6949
           [] row.strike = 104 -> 2570
           [] OTHER            -> 1542

\* Lines 586-654: the levels before clustering, in the order appended.
RawLevels(slf) ==
    LET rows == slf.data
        n == Len(rows)
        Level(strike, type, source, strength) ==
            [strike |-> strike, type |-> type, source |-> source, strength |-> strength]
        max_call_oi == SeqMax([i \in 1..n |-> rows[i].call_oi], n)
        max_put_oi == SeqMax([i \in 1..n |-> rows[i].put_oi], n)
        max_gamma == SeqMax([i \in 1..n |-> rows[i].gamma], n)
        high_call_oi == SelectSeq(rows, LAMBDA r : r.call_oi * 10 > max_call_oi * 7)
        high_put_oi == SelectSeq(rows, LAMBDA r : r.put_oi * 10 > max_put_oi * 7)
        high_gamma == SelectSeq(rows, LAMBDA r : r.gamma * 10 > max_gamma * 6)
        atm_index == ArgMin([i \in 1..n |-> Abs(CallDelta(rows[i], slf.spot_price) - 5000)])
    IN  [i \in 1..Len(high_call_oi) |->
            Level(high_call_oi[i].strike, "resistance", "call_oi", 70)]
        \o [i \in 1..Len(high_put_oi) |->
            Level(high_put_oi[i].strike, "support", "put_oi", 70)]
        \o [i \in 1..Len(high_gamma) |-> Level(high_gamma[i].strike, "pivot", "gamma", 80)]
        \o << Level(rows[atm_index].strike, "pivot", "delta", 90),
              Level(slf.spot_price, "current", "market", 100) >>
        \o (IF slf.max_pain_point # None
            THEN << Level(slf.max_pain_point.price, "magnet", "max_pain", 85) >>
            ELSE <<>>)

\* Lines 682-687: the type counted most often, the earliest such type.
MostFrequentType(cluster) ==
    LET Count(t) == Cardinality({k \in 1..Len(cluster) : cluster[k].type = t})
        first == CHOOSE k \in 1..Len(cluster) :
                    /\ \A m \in 1..Len(cluster) : Count(cluster[m].type) <= Count(cluster[k].type)
                    /\ \A m \in 1..(k - 1) : Count(cluster[m].type) < Count(cluster[k].type)
    IN  cluster[first].type

\* Lines 675-698 and 705-712: one cluster as a level, with its final type.
CombineCluster(cluster, spot) ==
    LET n == Len(cluster)
        total == SeqSum([k \in 1..n |-> cluster[k].strike], n)
        max_strength == SeqMax([k \in 1..n |-> cluster[k].strength], n)
        dominant_type == MostFrequentType(cluster)
    IN  [strike   |-> Frac(total, n),
         type     |-> IF total < spot * n
                      THEN IF dominant_type \in {"support", "magnet"}
                           THEN dominant_type ELSE "support"
                      ELSE IF total > spot * n
                      THEN IF dominant_type \in {"resistance", "magnet"}
                           THEN dominant_type ELSE "resistance"
                      ELSE "current_price",
         sources  |-> [k \in 1..n |-> cluster[k].source],
         strength |-> max_strength * (7 + Min(n, 3)),
         deviation_from_spot_pct |-> Frac((total - spot * n) * 100, spot * n)]

\* Lines 663-700: clusters from position i on; a cluster holds the levels
\* within spot * 0.02 of its first level.
RECURSIVE LevelClusters(_, _, _)
LevelClusters(sorted_levels, i, spot) ==
    IF i > Len(sorted_levels) THEN <<>>
    ELSE LET Near(k) == Abs(sorted_levels[k].strike - sorted_levels[i].strike) * 50 <= spot
             j == CHOOSE k \in i..Len(sorted_levels) :
                     /\ \A m \in i..k : Near(m)
                     /\ k < Len(sorted_levels) => ~Near(k + 1)
         IN  <<CombineCluster(SubSeq(sorted_levels, i, j), spot)>>
             \o LevelClusters(sorted_levels, j + 1, spot)

\* Lines 573-714: the list kept in self.support_resistance_levels.  (The
\* attribute is None or the list; the list is held under `levels`.)
analyze_support_resistance(slf) ==
    [levels |-> LevelClusters(SortByStrike(RawLevels(slf)), 1, slf.spot_price)]

\* Lines 1306-1356: the analyzer after the call and the report returned.
get_full_analysis(slf) ==
    With([slf EXCEPT !.max_pain_point = Cached(@, analyze_max_pain(slf)),
                     !.iv_skew_analysis = Cached(@, analyze_iv_skew(slf)),
                     !.dealer_gamma_exposure = Cached(@, analyze_dealer_gamma(slf))],
         LAMBDA s1 :
    With([s1 EXCEPT !.support_resistance_levels = Cached(@, analyze_support_resistance(s1)),
                    !.put_call_ratio_analysis = Cached(@, analyze_put_call_ratio(s1))],
         LAMBDA s2 :
    With(IF s2.market_sentiment_score = None THEN calculate_market_sentiment(s2) ELSE s2,
         LAMBDA s3 :
        [self   |-> s3,
         report |-> [spot_price         |-> s3.spot_price,
                     dte                |-> s3.data[1].dte,
                     max_pain           |-> s3.max_pain_point,
                     iv_skew            |-> s3.iv_skew_analysis,
                     dealer_gamma       |-> s3.dealer_gamma_exposure,
                     support_resistance |-> s3.support_resistance_levels.levels,
                     put_call_ratio     |-> s3.put_call_ratio_analysis,
                     market_sentiment   |-> s3.market_sentiment_score]])))

AnalyzeSupportResistance ==
    /\ self # None
    /\ self' = [self EXCEPT !.support_resistance_levels = analyze_support_resistance(self)]
    /\ UNCHANGED <<option_chain_data, other_order, spot_price>>
    /\ UNCHANGED <<fusionVars, trendVars, callVars>>

\* generate_grid_levels lines 1110-1121, the analyses it runs when they are
\* not cached (calculate_market_sentiment runs four more).
GridAnalyses ==
    /\ self # None
    /\ self' = With([self EXCEPT !.support_resistance_levels =
                                     Cached(@, analyze_support_resistance(self)),
                                 !.dealer_gamma_exposure =
                                     Cached(@, analyze_dealer_gamma(self))],
                    LAMBDA s1 : IF s1.market_sentiment_score = None
                                THEN calculate_market_sentiment(s1) ELSE s1)
    /\ UNCHANGED <<option_chain_data, other_order, spot_price>>
    /\ UNCHANGED <<fusionVars, trendVars, callVars>>

GetFullAnalysis ==
    /\ self # None /\ ret = None
    /\ self' = get_full_analysis(self).self
    /\ ret' = get_full_analysis(self).report
    /\ UNCHANGED <<option_chain_data, other_order, spot_price, args>>
    /\ UNCHANGED <<fusionVars, trendVars>>

InitReport ==
    /\ option_chain_data \in Chains(MaxRows)
    /\ other_order = option_chain_data
    /\ spot_price \in Spots
    /\ self = None
    /\ FusionIdle /\ TrendIdle /\ CallIdle

NextReport ==
    \/ Construct
    \/ AnalyzeMaxPain
    \/ AnalyzePutCallRatio
    \/ AnalyzeIvSkew
    \/ AnalyzeDealerGamma
    \/ AnalyzeSupportResistance
    \/ CalculateMarketSentiment
    \/ GridAnalyses
    \/ GetFullAnalysis

SpecReport == InitReport /\ [][NextReport]_vars

\* C25: the report of get_full_analysis is the report a fresh analyzer of
\* the same chain and spot price gives, whatever analyses ran on the
\* analyzer before and in whatever order.
C25_ReportIndependentOfHistory ==
    ret # None =>
        ret = get_full_analysis(OptionChainAnalyzer(option_chain_data, spot_price)).report

\* C25, the part that holds: every key of the report other than the
\* support/resistance levels is independent of the calls made before.
C25_OtherKeysIndependent ==
    ret # None =>
        [ret EXCEPT !.support_resistance = <<>>]
            = [get_full_analysis(OptionChainAnalyzer(option_chain_data, spot_price)).report
                  EXCEPT !.support_resistance = <<>>]

\* C25: a report was made from support/resistance levels found before the
\* max pain point was known.
C25_LevelsCachedBeforeMaxPain ==
    /\ ret # None
    /\ \A i \in 1..Len(ret.support_resistance) :
          \A k \in 1..Len(ret.support_resistance[i].sources) :
              ret.support_resistance[i].sources[k] # "max_pain"

-----------------------------------------------------------------------------
(* utils/signal_analyzer.py: analyze_signal, its normal path from line 46   *)
(* on, applied to what the decision stage of build_final_signal returns     *)
(* (lines 62-78) with the zones of get_support_resistance.  Prices are in   *)
(* thousandths of a point, rrr in hundredths.  The descriptive keys of the  *)
(* signal (trend, indicator snapshot, pattern and confluence blocks) do not *)
(* enter signal, entry, stop_loss, target or rrr and are not modelled.      *)

\* min(levels, key=lambda x: abs(x - current_price)): the first nearest level.
NearestLevel(levels, current_price) ==
    levels[ArgMin([i \in 1..Len(levels) |-> Abs(levels[i] - current_price)])]

BuyTypes == {"BUY", "BUY CALL", "LONG"}
SellTypes == {"SELL", "SELL CALL", "SHORT"}

\* Lines 45-50: the signal type.
SignalType(comprehensive_signal) ==
    With(Get(comprehensive_signal, "final_decision", "SKIP"), LAMBDA final_decision :
        IF final_decision = "SKIP"
        THEN Get(Get(comprehensive_signal, "ml_prediction", EmptyDict), "ml_signal", "HOLD")
        ELSE final_decision)

\* Lines 63-93 and 115-122; current_price in points.
analyze_signal(comprehensive_signal, current_price) ==
    LET signal_type == SignalType(comprehensive_signal)
        price == current_price * 1000
        zones == Get(comprehensive_signal, "zones", EmptyDict)
        support_levels == Get(zones, "support", <<>>)
        resistance_levels == Get(zones, "resistance", <<>>)
        nearest_support ==
            IF Len(support_levels) > 0
            THEN NearestLevel(support_levels, current_price) * 1000
            ELSE current_price * 990
        nearest_resistance ==
            IF Len(resistance_levels) > 0
            THEN NearestLevel(resistance_levels, current_price) * 1000
            ELSE current_price * 1010
        target_price ==
            IF signal_type \in BuyTypes THEN nearest_resistance
            ELSE IF signal_type \in SellTypes THEN nearest_support
            ELSE current_price * 1010
        stop_loss ==
            IF signal_type \in BuyTypes
            THEN IF nearest_support < price THEN nearest_support ELSE current_price * 995
            ELSE IF signal_type \in SellTypes
            THEN IF nearest_resistance > price THEN nearest_resistance
                 ELSE current_price * 1005
            ELSE current_price * 990
        risk == Abs(price - stop_loss)
        reward == Abs(target_price - price)
    IN  [signal     |-> signal_type,
         confidence |-> Get(comprehensive_signal, "confidence_score", 700),
         entry      |-> price,
         stop_loss  |-> stop_loss,
         target     |-> target_price,
         \* round(reward / risk, 2); the inputs put no quotient on a tie
         rrr        |-> IF risk > 0 THEN (200 * reward + risk) \div (2 * risk) ELSE 0]

\* build_final_signal lines 62-78 on an ML prediction and an LLM opinion,
\* with the zones stored at line 33.
ComprehensiveSignal(ml_signal, gpt_opinion, zones) ==
    [zones            |-> zones,
     ml_prediction    |-> ml_signal,
     ai_opinion       |-> gpt_opinion,
     final_decision   |-> FinalDecision(ml_signal, gpt_opinion),
     confidence_score |-> ConfidenceScore(ml_signal, gpt_opinion)]

\* The ascending lists over a set of levels.
AscendingLists(S) ==
    { SortSeq(f, LAMBDA x, y : x < y) :
        f \in UNION { {g \in [1..n -> S] : \A i, j \in 1..n : i # j => g[i] # g[j]} :
                        n \in 0..Cardinality(S) } }

AnalyzeSignal ==
    /\ args # None /\ ret = None
    /\ ret' = analyze_signal(
                  ComprehensiveSignal(args.ml_prediction, args.ai_opinion, args.zones),
                  args.current_price)
    /\ UNCHANGED <<args, fusionVars, chainVars, trendVars>>

InitAnalyze ==
    /\ FusionIdle /\ ChainIdle /\ TrendIdle
    /\ args \in [ml_prediction : [ml_signal : {"BUY CALL", "SELL CALL", "HOLD"},
                                  confidence : {852}],
                 ai_opinion : [decision : {"AGREE", "DISAGREE"}, confidence : {70, 75, 90}],
                 zones : [support : AscendingLists({97, 99, 102}),
                          resistance : AscendingLists({98, 101, 104})],
                 current_price : {100}]
    /\ ret = None

NextAnalyze == AnalyzeSignal

SpecAnalyze == InitAnalyze /\ [][NextAnalyze]_vars

C26_SignalIsMlSignal ==
    ret # None => ret.signal = args.ml_prediction.ml_signal

\* C26: the LLM vetoed a BUY CALL or SELL CALL prediction.
C26_VetoedPrediction ==
    /\ ret # None
    /\ args.ai_opinion.decision = "DISAGREE"
    /\ args.ml_prediction.ml_signal # "HOLD"

C27_StopLossOnLosingSide ==
    ret # None =>
        /\ ret.signal \in BuyTypes => ret.stop_loss < ret.entry
        /\ ret.signal \in SellTypes => ret.entry < ret.stop_loss

\* C27: a buy-type signal was built while the nearest resistance level lay
\* below the current price.
C27_ResistanceBelowPrice ==
    /\ ret # None /\ ret.signal \in BuyTypes
    /\ Len(args.zones.resistance) > 0
    /\ NearestLevel(args.zones.resistance, args.current_price) < args.current_price

-----------------------------------------------------------------------------
(* modules/risk_management.py: evaluate_risk.  Money and quantities are in  *)
(* units, stop_loss_points in tenths of a point, risk_per_trade in tenths   *)
(* of a percent.  The last close read at lines 24-30 is used nowhere.       *)

MaxRiskCandles == 4    \* longest candle list given to evaluate_risk

\* Lines 33-36
default_atr(index_name, mode_name) ==
    IF index_name = "NIFTY"
    THEN CASE mode_name = "scalp" -> 30 [] mode_name = "swing" -> 120 [] OTHER -> 300
    ELSE CASE mode_name = "scalp" -> 80 [] mode_name = "swing" -> 300 [] OTHER -> 700

\* Lines 5-128.
evaluate_risk(candles, index_name, mode_name) ==
    LET known_index == index_name \in {"NIFTY", "BANKNIFTY"}
        known_mode == mode_name \in {"scalp", "swing", "longterm"}
        \* line 39: .get() with the NIFTY and swing defaults
        atr_value == IF known_mode
                     THEN default_atr(IF known_index THEN index_name ELSE "NIFTY", mode_name)
                     ELSE default_atr("NIFTY", "swing")
        risk_per_trade == CASE mode_name = "swing" -> 15 [] mode_name = "longterm" -> 20
                            [] OTHER -> 10
        capital == 100000
        risk_amount == (capital * risk_per_trade) \div 1000
        lot_size == IF index_name = "NIFTY" THEN 50 ELSE 25
        stop_loss_multiplier == CASE mode_name = "swing" -> 20 [] mode_name = "longterm" -> 30
                                  [] OTHER -> 15
        stop_loss_points == atr_value * stop_loss_multiplier
        max_quantity == (risk_amount * 10) \div stop_loss_points
        suggested_lots == Max(1, max_quantity \div lot_size)
    IN  IF ~known_index \/ ~known_mode
        THEN \* line 71: default_atr[index][mode] raises KeyError, caught at 114
             [overall_risk    |-> "moderate",
              position_sizing |-> [suggested_lots |-> 1],
              volatility      |-> [rank |-> "moderate"],
              error           |-> "KeyError"]
        ELSE [overall_risk    |-> "moderate",
              position_sizing |-> [capital            |-> capital,
                                   risk_per_trade_pct |-> risk_per_trade,
                                   risk_amount        |-> risk_amount,
                                   stop_loss_points   |-> stop_loss_points,
                                   max_quantity       |-> max_quantity,
                                   suggested_lots     |-> suggested_lots,
                                   lot_size           |-> lot_size],
              volatility      |-> [atr |-> atr_value, rank |-> "moderate"]]

EvaluateRisk ==
    /\ args # None /\ ret = None
    /\ ret' = evaluate_risk(args.candles, args.index, args.mode)
    /\ UNCHANGED <<args, fusionVars, chainVars, trendVars>>

InitRisk ==
    /\ FusionIdle /\ ChainIdle /\ TrendIdle
    /\ args \in [candles : {StageData(n) : n \in 0..MaxRiskCandles},
                 index : {"NIFTY", "BANKNIFTY", "FINNIFTY"},
                 mode : {"scalp", "swing", "longterm", "intraday"}]
    /\ ret = None

NextRisk == EvaluateRisk

SpecRisk == InitRisk /\ [][NextRisk]_vars

\* C28: for NIFTY and BANKNIFTY in every mode the suggested position stays
\* within the risk budget: suggested_lots * lot_size <= max_quantity, and
\* that quantity times stop_loss_points is at most the risk amount.
C28_WithinRiskBudget ==
    (ret # None /\ args.index \in {"NIFTY", "BANKNIFTY"}
                /\ args.mode \in {"scalp", "swing", "longterm"}) =>
        LET sizing == ret.position_sizing
            quantity == sizing.suggested_lots * sizing.lot_size
        IN  /\ quantity <= sizing.max_quantity
            /\ quantity * sizing.stop_loss_points <= sizing.risk_amount * 10

\* C28, what the code does: max_quantity is within the budget, and in every
\* one of the six cases it is less than one lot, which is suggested anyway.
C28_OneLotBeyondBudget ==
    (ret # None /\ args.index \in {"NIFTY", "BANKNIFTY"}
                /\ args.mode \in {"scalp", "swing", "longterm"}) =>
        LET sizing == ret.position_sizing
        IN  /\ sizing.max_quantity * sizing.stop_loss_points <= sizing.risk_amount * 10
            /\ sizing.max_quantity < sizing.lot_size
            /\ sizing.suggested_lots = 1

\* C28: a position was sized for an index and a mode of the table.
C28_Sized ==
    /\ ret # None /\ args.index = "BANKNIFTY" /\ args.mode = "longterm"
    /\ "max_quantity" \in DOMAIN ret.position_sizing

-----------------------------------------------------------------------------
(* modules/option_chain.py: OptionChainAnalyzer._calculate_delta.  Deltas   *)
(* are in units of 1e-4; time_to_expiry is in days (the code's years times  *)
(* 365), volatility in hundredths, the risk-free rate 0.05.                 *)

\* stats.norm.cdf(d1) of line 306-309 for an option of 7 days and a
\* volatility of 0.30, rounded to 1e-4.
NormCdfD1(spot, strike) ==
    IF spot = 100
    THEN CASE strike = 94 -> 9374 [] strike = 100 -> 5175 [] OTHER -> 212
    ELSE CASE strike = 94 -> 9778 [] strike = 100 -> 6986 [] OTHER -> 601

\* Lines 302-312.
_calculate_delta(a) ==
    IF Degenerate(a.time_to_expiry, a.volatility)
    THEN IF a.option_type = "call" /\ a.spot_price > a.strike THEN 10000
         ELSE IF a.option_type = "call" THEN 0
         ELSE 10000
    ELSE IF a.option_type = "call"
         THEN NormCdfD1(a.spot_price, a.strike)
         ELSE NormCdfD1(a.spot_price, a.strike) - 10000

CalculateDelta ==
    /\ args # None /\ ret = None
    /\ ret' = [delta |-> _calculate_delta(args)]
    /\ UNCHANGED <<args, fusionVars, chainVars, trendVars>>

InitDelta ==
    /\ FusionIdle /\ ChainIdle /\ TrendIdle
    /\ args \in [spot_price : Spots,
                 strike : {94, 100, 109},
                 time_to_expiry : {-1, 0, 7},
                 volatility : {-10, 0, 30},
                 option_type : {"call", "put"}]
    /\ ret = None

NextDelta == CalculateDelta

SpecDelta == InitDelta /\ [][NextDelta]_vars

\* C29: the delta lies in [0,1] for a call and in [-1,0] for a put, for all
\* inputs, the degenerate ones (time_to_expiry <= 0 or volatility <= 0)
\* included.
C29_DeltaInRange ==
    ret # None =>
        IF args.option_type = "call"
        THEN 0 <= ret.delta /\ ret.delta <= 10000
        ELSE -10000 <= ret.delta /\ ret.delta <= 0

\* C29, the part that holds: call deltas are in [0,1] for all inputs, put
\* deltas in [-1,0] when the time to expiry and the volatility are positive.
C29_RangeOutsideDegeneratePuts ==
    (ret # None /\ ~(args.option_type = "put"
                     /\ (args.time_to_expiry <= 0 \/ args.volatility <= 0))) =>
        IF args.option_type = "call"
        THEN 0 <= ret.delta /\ ret.delta <= 10000
        ELSE -10000 <= ret.delta /\ ret.delta <= 0

\* C29: the delta of a put was asked for with zero volatility.
C29_DegeneratePut ==
    /\ ret # None /\ args.option_type = "put"
    /\ args.volatility = 0 /\ args.time_to_expiry > 0

-----------------------------------------------------------------------------
(* modules/market_open.py: run_market_open_analysis called on candle lists  *)
(* in any order (SpecOpen).  Timestamps are unique, as the candle store     *)
(* keeps them.                                                              *)

MaxOpenCandles == 4    \* longest candle list given to run_market_open_analysis

\* Candle lists in ascending time order over two of the bars.
RECURSIVE OpenLists(_)
OpenLists(n) ==
    IF n = 0 THEN {<<>>}
    ELSE LET shorter == OpenLists(n - 1)
         IN  shorter \cup
             { Append(cs, <<IF Len(cs) = 0 THEN 0 ELSE cs[Len(cs)][1] + g>> \o b) :
                 cs \in {x \in shorter : Len(x) = n - 1},
                 b \in { <<104, 110, 103, 108, 1200>>, <<112, 113, 100, 101, 3000>> },
                 g \in {300, 9000} }

\* The orderings of a list.
Orderings(cs) ==
    { [i \in 1..Len(cs) |-> cs[p[i]]] :
        p \in {q \in [1..Len(cs) -> 1..Len(cs)] : \A i, j \in 1..Len(cs) : i # j => q[i] # q[j]} }

RunMarketOpenAnalysis ==
    /\ args # None /\ ret = None
    /\ ret' = [market_open |-> run_market_open_analysis(args.candles)]
    /\ UNCHANGED <<args, fusionVars, chainVars, trendVars>>

InitOpen ==
    /\ FusionIdle /\ ChainIdle /\ TrendIdle
    /\ args \in UNION { [ascending : {cs}, candles : Orderings(cs)] :
                          cs \in OpenLists(MaxOpenCandles) }
    /\ ret = None

NextOpen == RunMarketOpenAnalysis

SpecOpen == InitOpen /\ [][NextOpen]_vars

\* The candles of the most recent session: those with no gap of more than
\* 7200 s between consecutive candles from them on; and the candle of that
\* session with k earlier candles in it.
LastSession ==
    LET S == {args.ascending[i] : i \in 1..Len(args.ascending)}
    IN  {c \in S : \A a, b \in S :
            (c[1] <= a[1] /\ a[1] < b[1] /\ ~\E d \in S : a[1] < d[1] /\ d[1] < b[1])
                => b[1] - a[1] <= 7200}
SessionCandle(k) ==
    CHOOSE c \in LastSession : Cardinality({d \in LastSession : d[1] < c[1]}) = k

\* C30: the opening range is that of the three earliest candles of the
\* most recent session, a session starting at every gap of more than
\* 7200 s, and the result is the same for every ordering of the list.
C30_OpeningRangeOfLastSession ==
    ret # None =>
        /\ ret.market_open = run_market_open_analysis(args.ascending)
        /\ IF Cardinality(LastSession) < 3
           THEN "error" \in DOMAIN ret.market_open
           ELSE /\ "error" \notin DOMAIN ret.market_open
                /\ ret.market_open.opening_high
                     = Max(SessionCandle(0)[3], Max(SessionCandle(1)[3], SessionCandle(2)[3]))
                /\ ret.market_open.opening_low
                     = Min(SessionCandle(0)[4], Min(SessionCandle(1)[4], SessionCandle(2)[4]))
                /\ ret.market_open.opening_direction
                     = OpeningDirection(SessionCandle(0)[2], ret.market_open.opening_high,
                                        ret.market_open.opening_low, SessionCandle(2)[5])

\* C30: a list that was not in time order, with an earlier session before
\* the three candles of the most recent one, was analysed.
C30_Witness ==
    /\ ret # None
    /\ args.candles # args.ascending
    /\ Cardinality(LastSession) = 3
    /\ Len(args.candles) = 4
    /\ "error" \notin DOMAIN ret.market_open

=============================================================================
